---- MODULE Spec2Model ----
(***************************************************************************)
(* Model of the admin dashboard's table logic (src/src/components/         *)
(* Dashboard.tsx): the per-kiosk multi-criterion sort configuration, the   *)
(* comparator and sort used to render the product rows, and the view state *)
(* that selects the kiosk.                                                 *)
(*                                                                         *)
(* A JavaScript array is a sequence; index i of the array is index i+1 of  *)
(* the sequence.  An object or map is a function on its keys, so a missing *)
(* property or entry is a key outside the DOMAIN.                          *)
(***************************************************************************)
EXTENDS Integers, Sequences, FiniteSets, TLC

\* ------------------------------------------------------------------ bounds

\* Kiosks offered by the kiosk selector (the list comes from the server).
NumKiosks == 2
\* Longest product list handed to sortProducts.
MaxProducts == 2
\* Sort criteria (summed over all kiosks) configured in the view-state runs.
MaxTotalCriteria == 3
\* Sort criteria configured in the sort-engine runs.
MaxSortCriteria == 2
\* Product ids known to the server.
NumProductIds == 2
\* Longest product list held in the client cache.
MaxCachedProducts == 2
\* Deletes confirmed in the product-management runs.
MaxDeletes == 1
\* Product-list requests sent in the runs of the App.
MaxRequests == 4
\* Submissions of the product form.
MaxSubmits == 1
\* Calls of handleSave and handleToggleVisibility started by the rows.
MaxRowCalls == 1
\* Mutation calls of any kind followed in one behaviour of SpecReconcile.
MaxMutations == 1
\* Column resizes performed in the column-width runs.
MaxResizes == 2
\* Header clicks, criterion removals, resets and column resizes performed in
\* the runs that combine sort configuration and column widths.
MaxViewOps == 2

KioskIds == 1..NumKiosks

\* ------------------------------------------------------------ data model

\* The four column headers of the inventory table that call handleSort.
Fields == {"name", "price", "quantity", "visibility"}

Directions == {"asc", "desc"}

\* The products: name and price of three catalogue items (two share the name,
\* two share the price), each in one of four stock states.  The names are
\* chosen so that Czech collation and code-point order disagree ("ch" is a
\* letter after "h").
Items ==
    { [name |-> "Cukr", price |-> 20],
      [name |-> "Chleba", price |-> 10],
      [name |-> "Chleba", price |-> 20] }

\* quantityInStock and active as delivered by the server; both are optional.
StockStates ==
    { [quantityInStock |-> 3, active |-> TRUE],
      [quantityInStock |-> 3, active |-> FALSE],
      [quantityInStock |-> 0, active |-> TRUE],
      << >> }

ProductDomain == { item @@ stock : item \in Items, stock \in StockStates }

ProductLists == UNION { [1..n -> ProductDomain] : n \in 0..MaxProducts }

VARIABLES
    kioskId,      \* useState kioskId: the selected kiosk
    sortConfigs,  \* useState sortConfigs: configured kiosk -> [criteria |-> Seq]
    products,     \* the cached product list handed to the render
    rows,         \* the rendered row order: sortProducts(products)
    lastOp,       \* history: the last operation and its field
    prevCriteria, \* history: the selected kiosk's criteria before lastOp
    columnWidths, \* useState columnWidths: configured kiosk -> field -> width
    viewOps,      \* number of view-state operations counted so far
    activeSection, \* useState activeSection
    cacheData,    \* SWR cache: key -> data (<< >> while undefined)
    cacheError,   \* SWR cache: the keys whose last fetch failed
    inflight,     \* the keys with a fetch in flight whose result will be used
    laggyData,    \* keepPreviousData: the last defined data the hook returned
    isConnected,  \* useState isConnected of useProducts
    deleteConfirm, \* useState deleteConfirm: the delete-confirmation dialog
    notification, \* useState notification
    deleteCall,   \* the position of the running confirmDeleteProduct call
    deleteLog,    \* history: what the last confirmed delete did
    server,       \* the ids of the products the server holds
    token,        \* App useState token (<< >> while null or undefined)
    view,         \* App useState view
    storedToken,  \* localStorage item admin_token
    loginCall,    \* the position of the running handleLogin call
    loginLog,     \* history: how the last handleLogin call ended
    listeners,    \* the window events useProducts listens to
    deduping,     \* the keys whose completed request still dedupes
    requests,     \* number of product-list requests sent so far
    db,           \* the server's products: id -> name, price, stock per kiosk
    issued,       \* history: the mutation requests sent, in order
    showAddForm,  \* useState showAddForm
    editingProduct, \* useState editingProduct (<< >> while null)
    productForm,  \* useState productForm
    submitCall,   \* the position of the running handleProductSubmit call
    submitLog,    \* history: how the last handleProductSubmit call went
    rowStates,    \* the useState values of the InventoryRow instances, by row
    rowCall,      \* the position of the running handleSave or
                  \* handleToggleVisibility call of a row
    rowLog        \* history: the row calls started so far

\* The variables outside the sort configuration and its history.
hookVars == <<activeSection, cacheData, cacheError, inflight, laggyData,
              isConnected>>

deleteVars == <<deleteConfirm, notification, deleteCall, deleteLog, server>>

appVars == <<token, view, storedToken, loginCall, loginLog>>

fetchVars == <<listeners, deduping, requests>>

serverVars == <<db, issued>>

formVars == <<showAddForm, editingProduct, productForm, submitCall, submitLog>>

rowVars == <<rowStates, rowCall, rowLog>>

\* The server, the product form and the inventory rows.
mutationVars == <<serverVars, formVars, rowVars>>

extVars == <<appVars, fetchVars, mutationVars>>

\* The view configuration and its history.
viewVars == <<lastOp, prevCriteria, columnWidths, viewOps>>

\* The Dashboard's kiosk, sort display, rendered list and hook.
dashVars == <<kioskId, sortConfigs, products, rows, hookVars>>

restVars == <<columnWidths, viewOps, hookVars, deleteVars, extVars>>

vars == <<kioskId, sortConfigs, products, rows, lastOp, prevCriteria,
          columnWidths, viewOps, hookVars, deleteVars, extVars>>

\* ------------------------------------------------------- library functions

Sign(n) == IF n < 0 THEN -1 ELSE IF n > 0 THEN 1 ELSE 0

\* Position of a name in Czech collation order (Intl collation for 'cs').
CsCollationRank(name) ==
    CASE name = "Cukr" -> 1
      [] name = "Chleba" -> 2

\* String.prototype.localeCompare(other, 'cs')
localeCompare(a, b) == Sign(CsCollationRank(a) - CsCollationRank(b))

\* ---------------------------------------------------------- configuration

\* Insertion of a criterion into a list already sorted by priority, behind
\* every element whose priority is not larger (Array.prototype.sort is
\* stable).
RECURSIVE InsertByPriority(_, _)
InsertByPriority(sorted, c) ==
    IF sorted = <<>> THEN <<c>>
    ELSE IF sorted[Len(sorted)].priority - c.priority > 0
         THEN Append(InsertByPriority(SubSeq(sorted, 1, Len(sorted) - 1), c),
                     sorted[Len(sorted)])
         ELSE Append(sorted, c)

\* criteria.sort((a, b) => a.priority - b.priority)
RECURSIVE SortByPriority(_)
SortByPriority(criteria) ==
    IF criteria = <<>> THEN <<>>
    ELSE InsertByPriority(SortByPriority(SubSeq(criteria, 1, Len(criteria) - 1)),
                          criteria[Len(criteria)])

\* normalizePriorities without the renumbering map.
normalizePrioritiesNoRenumber(criteria) == SortByPriority(criteria)

normalizePriorities(criteria) ==
    LET sorted == SortByPriority(criteria)
    IN [i \in 1..Len(sorted) |-> [sorted[i] EXCEPT !.priority = i - 1]]

\* prevConfigs[kioskId] || { criteria: [] }
ConfigOf(configs, kid) ==
    IF kid \in DOMAIN configs THEN configs[kid] ELSE [criteria |-> <<>>]

getCurrentSortConfig == ConfigOf(sortConfigs, kioskId)

FieldsOf(criteria) == { criteria[i].field : i \in 1..Len(criteria) }

\* ------------------------------------------------------------ sort engine

\* product.quantityInStock ?? 0  (and: product.quantityInStock || 0)
QuantityOf(product) ==
    IF "quantityInStock" \in DOMAIN product THEN product.quantityInStock ELSE 0

\* product.active ?? false
ActiveOf(product) ==
    IF "active" \in DOMAIN product THEN product.active ELSE FALSE

\* The visibility priority that looks at the active flag first.
getVisibilityPriorityActiveFirst(product) ==
    IF ActiveOf(product) THEN 0
    ELSE IF QuantityOf(product) = 0 THEN 2
    ELSE 1

getVisibilityPriority(product) ==
    IF QuantityOf(product) = 0 THEN 2
    ELSE IF ActiveOf(product) THEN 0
    ELSE 1

\* The field comparison without the "|| 0" default: a missing quantity
\* compares as a tie with every quantity.
FieldComparisonMissingQuantityTies(field, a, b) ==
    CASE field = "name" -> localeCompare(a.name, b.name)
      [] field = "price" -> a.price - b.price
      [] field = "quantity" ->
            IF "quantityInStock" \in DOMAIN a /\ "quantityInStock" \in DOMAIN b
            THEN a.quantityInStock - b.quantityInStock
            ELSE 0
      [] field = "visibility" -> getVisibilityPriority(a) - getVisibilityPriority(b)
      [] field = "active" -> getVisibilityPriority(a) - getVisibilityPriority(b)
      [] OTHER -> 0

\* The switch on criterion.field inside the comparator: the comparison of
\* one field, before the direction is applied.
FieldComparison(field, a, b) ==
    CASE field = "name" -> localeCompare(a.name, b.name)
      [] field = "price" -> a.price - b.price
      [] field = "quantity" -> QuantityOf(a) - QuantityOf(b)
      [] field = "visibility" -> getVisibilityPriority(a) - getVisibilityPriority(b)
      [] field = "active" -> getVisibilityPriority(a) - getVisibilityPriority(b)
      [] OTHER -> 0

\* The loop "for (const criterion of currentSortConfig.criteria)" from array
\* index i-1 on: the first non-zero comparison decides, 0 if there is none.
RECURSIVE CriteriaComparison(_, _, _, _)
CriteriaComparison(criteria, i, a, b) ==
    IF i > Len(criteria) THEN 0
    ELSE LET comparison == FieldComparison(criteria[i].field, a, b)
         IN IF comparison # 0
            THEN IF criteria[i].direction = "asc" THEN comparison ELSE -comparison
            ELSE CriteriaComparison(criteria, i + 1, a, b)

RECURSIVE CriteriaComparisonIgnoringDirection(_, _, _, _)
CriteriaComparisonIgnoringDirection(criteria, i, a, b) ==
    IF i > Len(criteria) THEN 0
    ELSE LET comparison == FieldComparison(criteria[i].field, a, b)
         IN IF comparison # 0
            THEN comparison
            ELSE CriteriaComparisonIgnoringDirection(criteria, i + 1, a, b)

\* The comparator ignoring the direction of the criteria.
CompareProductsIgnoringDirection(criteria, a, b) ==
    IF Len(criteria) = 0
    THEN LET priorityComparison ==
                 getVisibilityPriority(a) - getVisibilityPriority(b)
         IN IF priorityComparison # 0
            THEN priorityComparison
            ELSE localeCompare(a.name, b.name)
    ELSE CriteriaComparisonIgnoringDirection(criteria, 1, a, b)

\* The comparator with only the first criterion of the array applied.
CompareProductsFirstCriterionOnly(criteria, a, b) ==
    IF Len(criteria) = 0
    THEN LET priorityComparison ==
                 getVisibilityPriority(a) - getVisibilityPriority(b)
         IN IF priorityComparison # 0
            THEN priorityComparison
            ELSE localeCompare(a.name, b.name)
    ELSE CriteriaComparison(<<criteria[1]>>, 1, a, b)

\* The comparator handed to Array.prototype.sort by sortProducts.
CompareProducts(criteria, a, b) ==
    IF Len(criteria) = 0
    THEN LET priorityComparison ==
                 getVisibilityPriority(a) - getVisibilityPriority(b)
         IN IF priorityComparison # 0
            THEN priorityComparison
            ELSE localeCompare(a.name, b.name)
    ELSE CriteriaComparison(criteria, 1, a, b)

\* Array.prototype.sort with the comparator above.  The sort is stable: an
\* element goes behind every element that does not compare greater.
RECURSIVE InsertProduct(_, _, _)
InsertProduct(criteria, sorted, p) ==
    IF sorted = <<>> THEN <<p>>
    ELSE IF CompareProducts(criteria, sorted[Len(sorted)], p) > 0
         THEN Append(InsertProduct(criteria, SubSeq(sorted, 1, Len(sorted) - 1), p),
                     sorted[Len(sorted)])
         ELSE Append(sorted, p)

RECURSIVE ArraySort(_, _)
ArraySort(criteria, array) ==
    IF array = <<>> THEN <<>>
    ELSE CHOOSE result \in
           { InsertProduct(criteria, sorted, array[Len(array)]) :
               sorted \in { ArraySort(criteria,
                                      SubSeq(array, 1, Len(array) - 1)) } } :
           TRUE

\* sortProducts sorting the array it is given instead of a copy.
sortProductsInPlace(criteria, productsToSort) ==
    [argument |-> ArraySort(criteria, productsToSort),
     result |-> ArraySort(criteria, productsToSort)]

\* sortProducts(productsToSort): the array passed in as the call leaves it,
\* and the array returned.  The sort runs on the copy [...productsToSort].
sortProducts(criteria, productsToSort) ==
    [argument |-> productsToSort,
     result |-> ArraySort(criteria, productsToSort)]

\* ------------------------------------------------------------- view state

\* The entry written by "{ ...prevConfigs, [kioskId]: { criteria } }".
WithCriteria(prevConfigs, kid, criteria) ==
    (kid :> [criteria |-> criteria]) @@ prevConfigs

\* handleSort giving a new criterion the highest precedence.
handleSortUpdaterAddFirst(prevConfigs, kid, field) ==
    LET currentConfig == ConfigOf(prevConfigs, kid)
        criteria == currentConfig.criteria
    IN IF field \in FieldsOf(criteria)
       THEN LET updatedCriteria ==
                    [i \in 1..Len(criteria) |->
                        IF criteria[i].field = field
                        THEN [criteria[i] EXCEPT !.direction =
                                 IF @ = "asc" THEN "desc" ELSE "asc"]
                        ELSE criteria[i]]
            IN WithCriteria(prevConfigs, kid, normalizePriorities(updatedCriteria))
       ELSE LET newCriterion ==
                    [field |-> field, direction |-> "asc", priority |-> -1]
            IN WithCriteria(prevConfigs, kid,
                            normalizePriorities(Append(criteria, newCriterion)))

\* handleSort switching a criterion to descending and never back.
handleSortUpdaterOneWay(prevConfigs, kid, field) ==
    LET currentConfig == ConfigOf(prevConfigs, kid)
        criteria == currentConfig.criteria
    IN IF field \in FieldsOf(criteria)
       THEN LET updatedCriteria ==
                    [i \in 1..Len(criteria) |->
                        IF criteria[i].field = field
                        THEN [criteria[i] EXCEPT !.direction = "desc"]
                        ELSE criteria[i]]
            IN WithCriteria(prevConfigs, kid, normalizePriorities(updatedCriteria))
       ELSE LET newCriterion ==
                    [field |-> field, direction |-> "asc",
                     priority |-> Len(criteria)]
            IN WithCriteria(prevConfigs, kid,
                            normalizePriorities(Append(criteria, newCriterion)))

\* The state updater of handleSort: prevConfigs => { ... }.
handleSortUpdater(prevConfigs, kid, field) ==
    LET currentConfig == ConfigOf(prevConfigs, kid)
        criteria == currentConfig.criteria
    IN IF field \in FieldsOf(criteria)
       THEN LET updatedCriteria ==
                    [i \in 1..Len(criteria) |->
                        IF criteria[i].field = field
                        THEN [criteria[i] EXCEPT !.direction =
                                 IF @ = "asc" THEN "desc" ELSE "asc"]
                        ELSE criteria[i]]
            IN WithCriteria(prevConfigs, kid, normalizePriorities(updatedCriteria))
       ELSE LET newCriterion ==
                    [field |-> field, direction |-> "asc",
                     priority |-> Len(criteria)]
            IN WithCriteria(prevConfigs, kid,
                            normalizePriorities(Append(criteria, newCriterion)))

\* removeSortCriterion keeping the priorities of the remaining criteria.
removeSortCriterionUpdaterNoNormalize(prevConfigs, kid, field) ==
    LET currentConfig == ConfigOf(prevConfigs, kid)
        filteredCriteria ==
            SelectSeq(currentConfig.criteria, LAMBDA c : c.field # field)
    IN WithCriteria(prevConfigs, kid, filteredCriteria)

\* The state updater of removeSortCriterion.
removeSortCriterionUpdater(prevConfigs, kid, field) ==
    LET currentConfig == ConfigOf(prevConfigs, kid)
        filteredCriteria ==
            SelectSeq(currentConfig.criteria, LAMBDA c : c.field # field)
    IN WithCriteria(prevConfigs, kid, normalizePriorities(filteredCriteria))

\* The state updater of resetSort.
resetSortUpdater(prevConfigs, kid) == WithCriteria(prevConfigs, kid, <<>>)

\* The render of the sort display: when the selected kiosk has criteria,
\* getCurrentSortConfig().criteria.sort(...) sorts the array held in the
\* state by priority, in place.
DisplayCriteria(configs, kid) ==
    IF kid \in DOMAIN configs /\ Len(configs[kid].criteria) > 0
    THEN [configs EXCEPT ![kid].criteria = SortByPriority(@)]
    ELSE configs

\* The render that follows every state change: the sort display, then the
\* table body sortProducts(products).map(...).
Render(configs, kid) ==
    \E displayed \in { DisplayCriteria(configs, kid) } :
      \E call \in { sortProducts(ConfigOf(displayed, kid).criteria, products) } :
        /\ sortConfigs' = displayed
        /\ products' = call.argument
        /\ rows' = call.result

handleSort(field) ==
    /\ kioskId' = kioskId
    /\ Render(handleSortUpdater(sortConfigs, kioskId, field), kioskId)

removeSortCriterion(field) ==
    /\ kioskId' = kioskId
    /\ Render(removeSortCriterionUpdater(sortConfigs, kioskId, field), kioskId)

resetSort ==
    /\ kioskId' = kioskId
    /\ Render(resetSortUpdater(sortConfigs, kioskId), kioskId)

\* The kiosk selector: onChange={(e) => setKioskId(Number(e.target.value))}
setKioskId(kid) ==
    /\ kid # kioskId
    /\ kioskId' = kid
    /\ Render(sortConfigs, kid)

\* ------------------------------------------------------------ column widths

\* Math.max(80, Math.min(500, ...)): the bounds of a column width.
MinColumnWidth == 80

MaxColumnWidth == 500

\* The widths of a kiosk without an entry in columnWidths.
DefaultColumnWidths ==
    [name |-> 300, price |-> 120, quantity |-> 200, visibility |-> 150]

\* const columnOrder: SortField[] = ['name', 'price', 'quantity', 'visibility']
columnOrder == <<"name", "price", "quantity", "visibility">>

\* Array.prototype.indexOf, zero-based.
indexOf(array, element) ==
    IF \E i \in 1..Len(array) : array[i] = element
    THEN (CHOOSE i \in 1..Len(array) :
             /\ array[i] = element
             /\ \A j \in 1..(i - 1) : array[j] # element) - 1
    ELSE -1

MathMax(a, b) == IF a >= b THEN a ELSE b

MathMin(a, b) == IF a <= b THEN a ELSE b

\* Math.max(80, Math.min(500, width))
ClampWidth(width) == MathMax(MinColumnWidth, MathMin(MaxColumnWidth, width))

\* prev[kioskId] || { name: 300, price: 120, quantity: 200, visibility: 150 }
WidthsOf(prev, kid) ==
    IF kid \in DOMAIN prev THEN prev[kid] ELSE DefaultColumnWidths

getCurrentColumnWidths == WidthsOf(columnWidths, kioskId)

\* handleColumnResize writing the next column without clamping it.
handleColumnResizeUpdaterNextUnclamped(prev, kid, field, newWidth) ==
    LET currentWidths == WidthsOf(prev, kid)
        deltaWidth == newWidth - currentWidths[field]
        updated == [currentWidths EXCEPT ![field] = ClampWidth(newWidth)]
        nextIndex == indexOf(columnOrder, field) + 1
    IN IF nextIndex < Len(columnOrder)
       THEN LET nextField == columnOrder[nextIndex + 1]
            IN (kid :> [updated EXCEPT
                          ![nextField] = updated[nextField] - deltaWidth])
               @@ prev
       ELSE (kid :> updated) @@ prev

\* handleColumnResize moving the next column in the same direction.
handleColumnResizeUpdaterSameDirection(prev, kid, field, newWidth) ==
    LET currentWidths == WidthsOf(prev, kid)
        deltaWidth == newWidth - currentWidths[field]
        updated == [currentWidths EXCEPT ![field] = ClampWidth(newWidth)]
        nextIndex == indexOf(columnOrder, field) + 1
    IN IF nextIndex < Len(columnOrder)
       THEN LET nextField == columnOrder[nextIndex + 1]
            IN (kid :> [updated EXCEPT
                          ![nextField] = ClampWidth(updated[nextField] + deltaWidth)])
               @@ prev
       ELSE (kid :> updated) @@ prev

\* handleColumnResize pairing the last column with the first one.
handleColumnResizeUpdaterWrapAround(prev, kid, field, newWidth) ==
    LET currentWidths == WidthsOf(prev, kid)
        deltaWidth == newWidth - currentWidths[field]
        updated == [currentWidths EXCEPT ![field] = ClampWidth(newWidth)]
        nextIndex == (indexOf(columnOrder, field) + 1) % Len(columnOrder)
        nextField == columnOrder[nextIndex + 1]
    IN (kid :> [updated EXCEPT
                  ![nextField] = ClampWidth(updated[nextField] - deltaWidth)])
       @@ prev

\* handleColumnResize storing the widths under every configured kiosk.
handleColumnResizeUpdaterAllKiosks(prev, kid, field, newWidth) ==
    LET currentWidths == WidthsOf(prev, kid)
        deltaWidth == newWidth - currentWidths[field]
        updated == [currentWidths EXCEPT ![field] = ClampWidth(newWidth)]
        nextIndex == indexOf(columnOrder, field) + 1
        adjusted ==
            IF nextIndex < Len(columnOrder)
            THEN LET nextField == columnOrder[nextIndex + 1]
                 IN [updated EXCEPT
                       ![nextField] = ClampWidth(updated[nextField] - deltaWidth)]
            ELSE updated
    IN [k \in DOMAIN prev \cup {kid} |-> adjusted]

\* The state updater of handleColumnResize: prev => { ... }.
handleColumnResizeUpdater(prev, kid, field, newWidth) ==
    LET currentWidths == WidthsOf(prev, kid)
        currentWidth == currentWidths[field]
        deltaWidth == newWidth - currentWidth
        updated == [currentWidths EXCEPT ![field] = ClampWidth(newWidth)]
        currentIndex == indexOf(columnOrder, field)
        nextIndex == currentIndex + 1
    IN IF nextIndex < Len(columnOrder)
       THEN LET nextField == columnOrder[nextIndex + 1]
                nextNewWidth == ClampWidth(updated[nextField] - deltaWidth)
            IN (kid :> [updated EXCEPT ![nextField] = nextNewWidth]) @@ prev
       ELSE (kid :> updated) @@ prev

\* onResize of a header: setColumnWidths(prev => ...), then the render.
handleColumnResize(field, newWidth) ==
    /\ columnWidths' = handleColumnResizeUpdater(columnWidths, kioskId, field, newWidth)
    /\ kioskId' = kioskId
    /\ Render(sortConfigs, kioskId)

\* A mouse move while the resize handle of a header is dragged: startWidth is
\* the width of the header cell at mouse down, deltaX the pointer movement.
handleMouseMove(field, startWidth, deltaX) ==
    handleColumnResize(field, ClampWidth(startWidth + deltaX))

\* ------------------------------------------------------------ client cache

Sections == {"inventory", "products", "kiosks"}

\* The SWR key: the inventory endpoint of the kiosk in the inventory section,
\* the product endpoint in the other sections.
getApiUrl(kid, section) ==
    IF section = "inventory"
    THEN <<"ADMIN_PRODUCTS_INVENTORY", kid>>
    ELSE <<"ADMIN_PRODUCTS">>

Keys == { getApiUrl(kid, section) : kid \in KioskIds, section \in Sections }

CurrentKey == getApiUrl(kioskId, activeSection)

\* An optional value: << >> is undefined, << v >> is the value v.
Undefined == << >>

Defined(value) == << value >>

ProductIds == 1..NumProductIds

\* The AdminProduct records of the cache: per id a record with a stock
\* quantity and one without, at different prices.
AdminProducts ==
    UNION { { [id |-> i, name |-> IF i = 1 THEN "Chleba" ELSE "Cukr",
               price |-> 10, quantityInStock |-> 3],
              [id |-> i, name |-> IF i = 1 THEN "Chleba" ELSE "Cukr",
               price |-> 20] } : i \in ProductIds }

\* mutate((currentProducts) => ...) of addProduct.
addProductUpdater(currentProducts, newProduct) ==
    IF currentProducts = Undefined
    THEN << newProduct >>
    ELSE Append(currentProducts[1], newProduct)

\* updateProduct replacing the entry instead of merging it.
updateProductUpdaterReplace(currentProducts, updatedProduct) ==
    IF currentProducts = Undefined
    THEN << updatedProduct >>
    ELSE [i \in 1..Len(currentProducts[1]) |->
            IF currentProducts[1][i].id = updatedProduct.id
            THEN updatedProduct
            ELSE currentProducts[1][i]]

\* mutate((currentProducts) => ...) of updateProduct; { ...p, ...updatedProduct }
\* takes the fields of updatedProduct first.
updateProductUpdater(currentProducts, updatedProduct) ==
    IF currentProducts = Undefined
    THEN << updatedProduct >>
    ELSE [i \in 1..Len(currentProducts[1]) |->
            IF currentProducts[1][i].id = updatedProduct.id
            THEN updatedProduct @@ currentProducts[1][i]
            ELSE currentProducts[1][i]]

\* mutate((currentProducts) => ...) of removeProduct.
removeProductUpdater(currentProducts, productId) ==
    IF currentProducts = Undefined
    THEN << >>
    ELSE SelectSeq(currentProducts[1], LAMBDA p : p.id # productId)

\* mutate((currentProducts) => ...) of revertProduct.
revertProductUpdater(currentProducts, product) ==
    IF currentProducts = Undefined
    THEN << product >>
    ELSE Append(currentProducts[1], product)

\* The state of the SWR cache and of its requests.
HookState ==
    [cacheData |-> cacheData, cacheError |-> cacheError, inflight |-> inflight]

\* mutate always revalidating, whatever the options say.
mutateAlwaysRevalidate(state, key, data, revalidate) ==
    [cacheData |-> [state.cacheData EXCEPT ![key] = data],
     cacheError |-> state.cacheError \ {key},
     inflight |-> state.inflight \cup {key}]

\* mutate storing the data without ever starting a request.
mutateWithoutRequest(state, key, data, revalidate) ==
    [cacheData |-> [state.cacheData EXCEPT ![key] = data],
     cacheError |-> state.cacheError \ {key},
     inflight |-> state.inflight \ {key}]

\* The bound mutate(data, { revalidate }) of useSWR: it stores data as the
\* cached value of the key and clears its error; a request of the key that is
\* in flight is ignored when it completes, and a new one is started when
\* revalidate is set.
mutate(state, key, data, revalidate) ==
    [cacheData |-> [state.cacheData EXCEPT ![key] = data],
     cacheError |-> state.cacheError \ {key},
     inflight |-> IF revalidate
                  THEN state.inflight \cup {key}
                  ELSE state.inflight \ {key}]

\* keepPreviousData: the cached data of the key, else the last returned data.
returnedData(cachedData, laggy) ==
    IF cachedData = Undefined THEN laggy ELSE cachedData

\* products: products || []
ProductsOf(data) == IF data = Undefined THEN << >> ELSE data[1]

\* The render after a change of the hook's state: useProducts returns the
\* product list, the sort display and the rows of the section are rendered.
RenderHook(state, kid, section) ==
    /\ cacheData' = state.cacheData
    /\ cacheError' = state.cacheError
    /\ inflight' = state.inflight
    /\ \E data \in { returnedData(state.cacheData[getApiUrl(kid, section)],
                                  laggyData) } :
         \E displayed \in { DisplayCriteria(sortConfigs, kid) } :
           \E call \in { sortProducts(ConfigOf(displayed, kid).criteria,
                                      ProductsOf(data)) } :
             /\ laggyData' = data
             /\ sortConfigs' = IF section = "inventory" THEN displayed
                               ELSE sortConfigs
             /\ products' = call.argument
             /\ rows' = IF section = "kiosks" THEN << >> ELSE call.result

\* The optimistic update functions of useProducts.
addProduct(newProduct) ==
    /\ RenderHook(mutate(HookState, CurrentKey,
                         Defined(addProductUpdater(cacheData[CurrentKey],
                                                   newProduct)), FALSE),
                  kioskId, activeSection)
    /\ UNCHANGED <<kioskId, activeSection, isConnected>>

updateProduct(updatedProduct) ==
    /\ RenderHook(mutate(HookState, CurrentKey,
                         Defined(updateProductUpdater(cacheData[CurrentKey],
                                                      updatedProduct)), FALSE),
                  kioskId, activeSection)
    /\ UNCHANGED <<kioskId, activeSection, isConnected>>

removeProduct(productId) ==
    /\ RenderHook(mutate(HookState, CurrentKey,
                         Defined(removeProductUpdater(cacheData[CurrentKey],
                                                      productId)), FALSE),
                  kioskId, activeSection)
    /\ UNCHANGED <<kioskId, activeSection, isConnected>>

revertProduct(product) ==
    /\ RenderHook(mutate(HookState, CurrentKey,
                         Defined(revertProductUpdater(cacheData[CurrentKey],
                                                      product)), FALSE),
                  kioskId, activeSection)
    /\ UNCHANGED <<kioskId, activeSection, isConnected>>

\* The product lists the server returns: every id at most once, in the order
\* of the ids.
FetchedLists ==
    { list \in UNION { [1..n -> AdminProducts] : n \in 0..MaxCachedProducts } :
        \A i, j \in 1..Len(list) : i < j => list[i].id < list[j].id }

\* The bodies of a response: the expected shape around a product list, and
\* the shapes lacking success, data or products.
ResponseBodies ==
    { [success |-> TRUE, data |-> [products |-> list]] : list \in FetchedLists }
    \cup { [success |-> FALSE, data |-> [products |-> << >>]],
           [data |-> [products |-> << >>]],
           [success |-> TRUE],
           [success |-> TRUE, data |-> [total |-> 0]] }

\* What fetch(url) gives the fetcher: a transport failure, a response with a
\* non-success status, a response whose body is not JSON, or a JSON body.
Responses ==
    { [rejected |-> TRUE],
      [rejected |-> FALSE, ok |-> FALSE],
      [rejected |-> FALSE, ok |-> TRUE, json |-> FALSE] }
    \cup { [rejected |-> FALSE, ok |-> TRUE, json |-> TRUE, body |-> body] :
             body \in ResponseBodies }

\* The list the server returns for a key: its products in the order of their
\* ids, with the stock of the kiosk on the inventory endpoint.
ServerList(key, ids) ==
    SelectSeq([i \in ProductIds |->
                 IF key[1] = "ADMIN_PRODUCTS_INVENTORY"
                 THEN [id |-> i, name |-> IF i = 1 THEN "Chleba" ELSE "Cukr",
                       price |-> 10, quantityInStock |-> key[2]]
                 ELSE [id |-> i, name |-> IF i = 1 THEN "Chleba" ELSE "Cukr",
                       price |-> 20]],
              LAMBDA product : product.id \in ids)

\* The responses to a request of a key sent to a server holding these ids:
\* the body with the server's list, a transport failure or a non-success
\* status.
ServerResponses(key, ids) ==
    { [rejected |-> FALSE, ok |-> TRUE, json |-> TRUE,
       body |-> [success |-> TRUE,
                 data |-> [products |-> ServerList(key, ids)]]],
      [rejected |-> TRUE],
      [rejected |-> FALSE, ok |-> FALSE] }

\* The fetcher accepting every JSON body of a response with a success status.
fetcherWithoutShapeCheck(response) ==
    IF response.rejected THEN [thrown |-> TRUE]
    ELSE IF ~response.ok THEN [thrown |-> TRUE]
    ELSE IF ~response.json THEN [thrown |-> TRUE]
    ELSE IF "data" \in DOMAIN response.body
            /\ "products" \in DOMAIN response.body.data
         THEN [thrown |-> FALSE, value |-> response.body.data.products]
         ELSE [thrown |-> FALSE, value |-> << >>]

\* The SWR fetcher: the returned products, or the Error it throws.
fetcher(response) ==
    IF response.rejected THEN [thrown |-> TRUE]
    ELSE IF ~response.ok THEN [thrown |-> TRUE]
    ELSE IF ~response.json THEN [thrown |-> TRUE]
    ELSE LET data == response.body
         IN IF /\ "success" \in DOMAIN data
               /\ data.success
               /\ "data" \in DOMAIN data
               /\ "products" \in DOMAIN data.data
            THEN [thrown |-> FALSE, value |-> data.data.products]
            ELSE [thrown |-> TRUE]

\* An error that discards the data of the key.
SettledDroppingData(state, key, outcome) ==
    IF outcome.thrown
    THEN [cacheData |-> [state.cacheData EXCEPT ![key] = Undefined],
          cacheError |-> state.cacheError \cup {key},
          inflight |-> state.inflight \ {key}]
    ELSE [cacheData |-> [state.cacheData EXCEPT ![key] = Defined(outcome.value)],
          cacheError |-> state.cacheError \ {key},
          inflight |-> state.inflight \ {key}]

\* The outcome of a request stored under the key the hook has on arrival.
SettledUnderCurrentKey(state, key, outcome) ==
    IF outcome.thrown
    THEN [cacheData |-> state.cacheData,
          cacheError |-> state.cacheError \cup {key},
          inflight |-> state.inflight \ {key}]
    ELSE [cacheData |-> [state.cacheData EXCEPT
                           ![CurrentKey] = Defined(outcome.value)],
          cacheError |-> state.cacheError \ {key},
          inflight |-> state.inflight \ {key}]

\* SWR storing the outcome of the request of a key: the data with the error
\* cleared, or the error with the data kept.
Settled(state, key, outcome) ==
    IF outcome.thrown
    THEN [cacheData |-> state.cacheData,
          cacheError |-> state.cacheError \cup {key},
          inflight |-> state.inflight \ {key}]
    ELSE [cacheData |-> [state.cacheData EXCEPT ![key] = Defined(outcome.value)],
          cacheError |-> state.cacheError \ {key},
          inflight |-> state.inflight \ {key}]

\* The request of a key completes: the fetcher runs on the response, SWR
\* stores the outcome and calls onSuccess or onError when the key is still
\* the key of the hook.
FetchCompletes(key, response) ==
    /\ key \in inflight
    /\ \E outcome \in { fetcher(response) } :
         /\ RenderHook(Settled(HookState, key, outcome), kioskId, activeSection)
         /\ isConnected' = IF key = CurrentKey THEN ~outcome.thrown
                           ELSE isConnected
    /\ UNCHANGED <<kioskId, activeSection>>

\* refreshInterval, revalidateOnFocus, revalidateOnReconnect and the retry
\* after an error: a request of the current key, unless one is in flight.
Revalidation ==
    /\ CurrentKey \notin inflight
    /\ inflight' = inflight \cup {CurrentKey}
    /\ UNCHANGED <<kioskId, activeSection, cacheData, cacheError, laggyData,
                   isConnected, sortConfigs, products, rows>>

\* revalidate: mutate(undefined, { revalidate: true }) stores undefined as
\* the data of the current key and requests the key.
revalidate ==
    /\ RenderHook(mutate(HookState, CurrentKey, Undefined, TRUE),
                  kioskId, activeSection)
    /\ UNCHANGED <<kioskId, activeSection, isConnected>>

\* The hook after the dashboard is mounted: nothing cached, the fetch of the
\* first key in flight.
HookMounted ==
    /\ activeSection = "inventory"
    /\ cacheData = [key \in Keys |-> Undefined]
    /\ cacheError = {}
    /\ inflight = { getApiUrl(1, "inventory") }
    /\ laggyData = Undefined
    /\ isConnected = FALSE

\* The window events useProducts listens to while it is mounted.
RefreshEvents == {"admin-refresh-requested", "product-updated", "force-refresh"}

\* The tokens the login endpoint hands out.
Tokens == {"token-1", "token-2"}

\* No handleLogin call is running.
NoLogin == [pc |-> "idle"]

\* The App started with a token in localStorage: the dashboard view with the
\* Dashboard mounted, its hook listening and its first request sent.
LoggedIn ==
    /\ token = Defined("token-1")
    /\ view = "dashboard"
    /\ storedToken = Defined("token-1")
    /\ loginCall = NoLogin
    /\ loginLog = "none"
    /\ listeners = RefreshEvents
    /\ deduping = {}
    /\ requests = 1

\* The revalidations SWR starts by itself, all with the dedupe option:
\* refreshInterval, revalidateOnFocus, revalidateOnReconnect and the retry
\* after an error.
DedupedTriggers == {"refreshInterval", "focus", "reconnect", "errorRetry"}

\* A deduped revalidation that looks at the request in flight only.
softRevalidateWithoutInterval ==
    IF CurrentKey \in inflight
    THEN UNCHANGED <<kioskId, sortConfigs, products, rows, hookVars, fetchVars>>
    ELSE /\ Revalidation
         /\ requests' = requests + 1
         /\ UNCHANGED <<listeners, deduping>>

\* A revalidation with the dedupe option: no request is sent while one of
\* the key is in flight or has completed within dedupingInterval.
softRevalidate ==
    IF CurrentKey \in inflight \cup deduping
    THEN UNCHANGED <<kioskId, sortConfigs, products, rows, hookVars, fetchVars>>
    ELSE /\ Revalidation
         /\ requests' = requests + 1
         /\ UNCHANGED <<listeners, deduping>>

\* One of the triggers fires while the hook is mounted.
revalidateOn(trigger) ==
    /\ listeners # {}
    /\ softRevalidate

\* mutate(undefined, { revalidate: true }) with the request it sends: the
\* mutation removes the dedupe marker of the key, and its revalidation runs
\* without the dedupe option.
forcedRevalidate ==
    /\ revalidate
    /\ deduping' = deduping \ {CurrentKey}
    /\ requests' = requests + 1
    /\ UNCHANGED listeners

\* The three listeners of useProducts.
handleAdminRefresh == forcedRevalidate

\* A listener that stores nothing and sends nothing.
handleProductUpdateIgnored ==
    UNCHANGED <<kioskId, sortConfigs, products, rows, hookVars, fetchVars>>

handleProductUpdate == forcedRevalidate

handleForceRefresh == forcedRevalidate

\* window.dispatchEvent(new CustomEvent(name)): the listener registered for
\* the event runs, if there is one.
dispatchEvent(name) ==
    IF name \notin listeners
    THEN UNCHANGED <<kioskId, sortConfigs, products, rows, hookVars, fetchVars>>
    ELSE CASE name = "admin-refresh-requested" -> handleAdminRefresh
           [] name = "product-updated" -> handleProductUpdate
           [] name = "force-refresh" -> handleForceRefresh

\* The refresh button of the Dashboard: await revalidate().
forceRefreshProducts == forcedRevalidate

\* The request of a key completes, with the Dashboard mounted or not: SWR
\* stores the outcome; a successful request dedupes for dedupingInterval.
FetchSettles(key, response) ==
    /\ key \in inflight
    /\ deduping' = IF fetcher(response).thrown
                   THEN deduping \ {key}
                   ELSE deduping \cup {key}
    /\ UNCHANGED <<listeners, requests>>
    /\ IF listeners # {}
       THEN FetchCompletes(key, response)
       ELSE /\ \E settled \in { Settled(HookState, key, fetcher(response)) } :
                 /\ cacheData' = settled.cacheData
                 /\ cacheError' = settled.cacheError
                 /\ inflight' = settled.inflight
            /\ UNCHANGED <<kioskId, activeSection, isConnected, laggyData,
                           sortConfigs, products, rows>>

\* dedupingInterval has passed since the request of the key completed.
DedupingIntervalElapsed(key) ==
    /\ key \in deduping
    /\ deduping' = deduping \ {key}
    /\ UNCHANGED <<kioskId, sortConfigs, products, rows, hookVars, listeners,
                   requests>>

\* view === 'dashboard' && token: the App renders the Dashboard.
DashboardShown == view = "dashboard" /\ token # Undefined

\* What the login endpoint answers: a transport failure, a non-success
\* status, a body that is not JSON, a body without data, a data object
\* without token, or a token.
LoginResponses ==
    { [rejected |-> TRUE],
      [rejected |-> FALSE, ok |-> FALSE],
      [rejected |-> FALSE, ok |-> TRUE, json |-> FALSE],
      [rejected |-> FALSE, ok |-> TRUE, json |-> TRUE,
       body |-> [success |-> TRUE]],
      [rejected |-> FALSE, ok |-> TRUE, json |-> TRUE,
       body |-> [success |-> TRUE, data |-> [user |-> "admin"]]] }
    \cup { [rejected |-> FALSE, ok |-> TRUE, json |-> TRUE,
            body |-> [success |-> TRUE, data |-> [token |-> t]]] :
              t \in Tokens }

\* handleLogin throws: the fetch rejects, the status is not ok, response.json()
\* rejects, or data.data is undefined.
handleLoginThrows(response) ==
    \/ response.rejected
    \/ ~response.ok
    \/ ~response.json
    \/ "data" \notin DOMAIN response.body

\* The Dashboard is mounted: its state is the initial one, its hook listens
\* to the window events and useSWR requests the key unless a request of it
\* is in flight or still dedupes.
MountDashboard ==
    /\ kioskId' = 1
    /\ activeSection' = "inventory"
    /\ isConnected' = FALSE
    /\ listeners' = RefreshEvents
    /\ \E key \in { getApiUrl(1, "inventory") } :
         \E started \in { key \notin inflight \cup deduping } :
           /\ requests' = IF started THEN requests + 1 ELSE requests
           /\ RenderHook([HookState EXCEPT
                            !.inflight = IF started THEN @ \cup {key} ELSE @],
                         1, "inventory")
    /\ UNCHANGED deduping

\* The Dashboard is unmounted: its state and the state of its hook are gone,
\* the listeners are removed; the cache and the requests in flight stay.
UnmountDashboard ==
    /\ kioskId' = 1
    /\ activeSection' = "inventory"
    /\ isConnected' = FALSE
    /\ listeners' = {}
    /\ sortConfigs' = << >>
    /\ products' = << >>
    /\ rows' = << >>
    /\ laggyData' = Undefined
    /\ UNCHANGED <<cacheData, cacheError, inflight, deduping, requests>>

\* LoginForm.handleSubmit calling handleLogin, up to the await of the fetch.
handleLogin ==
    /\ ~DashboardShown
    /\ loginCall = NoLogin
    /\ loginCall' = [pc |-> "awaitResponse"]
    /\ UNCHANGED <<token, view, storedToken, loginLog>>
    /\ UNCHANGED <<kioskId, sortConfigs, products, rows, hookVars, fetchVars>>

\* handleLogin from the answer of the fetch to its end: it stores the token
\* and shows the dashboard, or hands the error to handleError and rethrows.
handleLoginResponse(response) ==
    /\ loginCall.pc = "awaitResponse"
    /\ loginCall' = NoLogin
    /\ IF handleLoginThrows(response)
       THEN /\ loginLog' = "thrown"
            /\ UNCHANGED <<token, view, storedToken>>
            /\ UNCHANGED <<kioskId, sortConfigs, products, rows, hookVars,
                           fetchVars>>
       ELSE /\ loginLog' = "returned"
            /\ view' = "dashboard"
            /\ IF "token" \in DOMAIN response.body.data
               THEN /\ storedToken' = Defined(response.body.data.token)
                    /\ token' = Defined(response.body.data.token)
                    /\ MountDashboard
               ELSE /\ storedToken' = Defined("undefined")
                    /\ token' = Undefined
                    /\ UNCHANGED <<kioskId, sortConfigs, products, rows,
                                   hookVars, fetchVars>>

\* A logout that leaves the token in the state of the App.
handleLogoutKeepingToken ==
    /\ DashboardShown
    /\ storedToken' = Undefined
    /\ token' = token
    /\ view' = "login"
    /\ UnmountDashboard
    /\ UNCHANGED <<loginCall, loginLog>>

\* handleLogout, called by the Dashboard.
handleLogout ==
    /\ DashboardShown
    /\ storedToken' = Undefined
    /\ token' = Undefined
    /\ view' = "login"
    /\ UnmountDashboard
    /\ UNCHANGED <<loginCall, loginLog>>

\* ------------------------------------------------------- product deletion

\* showNotification(message, type)
Notified(type) == [show |-> TRUE, type |-> type]

\* setDeleteConfirm({ show: false, product: null })
DialogClosed == [show |-> FALSE]

\* No confirmDeleteProduct call is running.
Idle == [pc |-> "idle"]

\* The answers to the DELETE request: a success status, another status, or a
\* failure of the transport.
DeleteOutcomes == {"ok", "notOk", "rejected"}

\* The dashboard before any delete: no dialog, no notification.
NoDelete ==
    /\ deleteConfirm = DialogClosed
    /\ notification = [show |-> FALSE, type |-> "info"]
    /\ deleteCall = Idle
    /\ deleteLog = [phase |-> "none", number |-> 0]
    /\ server = ProductIds

\* The history of a delete that ended: its number, the invocations of
\* revertProduct and the notifications shown.
Ended(log, phase) ==
    [phase |-> phase, number |-> log.number, reverts |-> log.reverts,
     shown |-> log.shown]

\* The history of the running delete after revertProduct was invoked or a
\* notification was shown.
Reverted(log) == [log EXCEPT !.reverts = @ + 1]

Shown(log, type) == [log EXCEPT !.shown = @ \cup {type}]

\* A nav-item button: the section changes, and with it the key of the hook;
\* useSWR requests the new key unless a request of it is in flight.
setActiveSection(section) ==
    /\ section # activeSection
    /\ activeSection' = section
    /\ RenderHook([HookState EXCEPT
                     !.inflight = @ \cup {getApiUrl(kioskId, section)}],
                  kioskId, section)
    /\ UNCHANGED <<kioskId, isConnected>>

\* The kiosk selector of the inventory section: the kiosk changes, and with
\* it the key of the hook.
selectKiosk(kid) ==
    /\ activeSection = "inventory"
    /\ kid # kioskId
    /\ kioskId' = kid
    /\ RenderHook([HookState EXCEPT
                     !.inflight = @ \cup {getApiUrl(kid, activeSection)}],
                  kid, activeSection)
    /\ UNCHANGED <<activeSection, isConnected>>

\* The delete button of a product card.
handleDeleteProduct(product) ==
    /\ deleteConfirm' = [show |-> TRUE, product |-> product]
    /\ UNCHANGED <<notification, deleteCall, deleteLog, server>>

\* cancel-btn of the dialog.
cancelDeleteProduct ==
    /\ deleteConfirm' = DialogClosed
    /\ UNCHANGED <<notification, deleteCall, deleteLog, server>>

\* confirm-btn of the dialog, up to the await of the DELETE request.
confirmDeleteProduct ==
    /\ "product" \in DOMAIN deleteConfirm
    /\ removeProduct(deleteConfirm.product.id)
    /\ deleteCall' = [pc |-> "awaitResponse",
                      productToDelete |-> deleteConfirm.product]
    /\ deleteLog' = [phase |-> "pending",
                     number |-> deleteLog.number + 1,
                     key |-> CurrentKey,
                     before |-> cacheData[CurrentKey],
                     product |-> deleteConfirm.product,
                     reverts |-> 0,
                     shown |-> {},
                     stored |-> FALSE]
    /\ UNCHANGED <<deleteConfirm, notification, server>>

\* confirmDeleteProduct from the answer of the DELETE request to its next
\* await or its end; the error branch invoking revertProduct a second time.
confirmDeleteProductResponse(outcome) ==
    /\ deleteCall.pc = "awaitResponse"
    /\ CASE outcome = "ok" ->
              /\ RenderHook(mutate(HookState, CurrentKey, Undefined, TRUE),
                            kioskId, activeSection)
              /\ UNCHANGED <<kioskId, activeSection, isConnected>>
              /\ notification' = Notified("success")
              /\ deleteCall' = [pc |-> "awaitRevalidate", key |-> CurrentKey]
              /\ deleteLog' = [Shown(deleteLog, "success") EXCEPT !.phase = "accepted"]
              /\ server' = server \ {deleteCall.productToDelete.id}
              /\ UNCHANGED deleteConfirm
         [] outcome = "notOk" ->
              /\ revertProduct(deleteCall.productToDelete)
              /\ deleteCall' = [deleteCall EXCEPT !.pc = "awaitErrorBody"]
              /\ deleteLog' = [Reverted(deleteLog) EXCEPT !.phase = "reverted"]
              /\ UNCHANGED <<deleteConfirm, notification, server>>
         [] outcome = "rejected" ->
              /\ revertProduct(deleteCall.productToDelete)
              /\ notification' = Notified("error")
              /\ deleteConfirm' = DialogClosed
              /\ deleteCall' = Idle
              /\ deleteLog' = Ended(Shown(Reverted(deleteLog), "error"), "failed")
              /\ server' \in { server, server \ {deleteCall.productToDelete.id} }

\* confirmDeleteProduct from the answer of response.json() of a response with
\* a non-success status to its end.
confirmDeleteProductErrorBody(readable) ==
    /\ deleteCall.pc = "awaitErrorBody"
    /\ IF readable
       THEN /\ deleteLog' = Ended(Shown(deleteLog, "error"), "failed")
            /\ UNCHANGED <<kioskId, activeSection, hookVars, sortConfigs,
                           products, rows>>
       ELSE /\ revertProduct(deleteCall.productToDelete)
            /\ deleteLog' = Ended(Shown(Reverted(deleteLog), "error"), "failed")
    /\ notification' = Notified("error")
    /\ deleteConfirm' = DialogClosed
    /\ deleteCall' = Idle
    /\ server' = server

\* confirmDeleteProduct after await revalidate(): the finally block.
confirmDeleteProductRevalidated ==
    /\ deleteCall.pc = "awaitRevalidate"
    /\ deleteCall.key \notin inflight
    /\ deleteConfirm' = DialogClosed
    /\ deleteCall' = Idle
    /\ deleteLog' = Ended(deleteLog, "deleted")
    /\ UNCHANGED <<kioskId, activeSection, hookVars, sortConfigs, products,
                   rows, notification, server>>

\* The timer of showNotification, or the close button of the notification.
hideNotification ==
    /\ notification.show
    /\ notification' = [show |-> FALSE, type |-> "info"]
    /\ UNCHANGED <<deleteConfirm, deleteCall, deleteLog, server>>

\* --------------------------------------------------------- specifications

TotalCriteria(configs) ==
    Cardinality(UNION { { <<k, i>> : i \in 1..Len(configs[k].criteria) } :
                        k \in DOMAIN configs })

\* A click on a header stays within the modelled number of criteria.
WithinCriteria(field, max) ==
    \/ field \in FieldsOf(getCurrentSortConfig.criteria)
    \/ TotalCriteria(sortConfigs) < max

NoOp == [op |-> "none", field |-> "none"]

\* The history variables after an operation on the given field.
Recorded(op, field) ==
    /\ lastOp' = [op |-> op, field |-> field]
    /\ prevCriteria' = getCurrentSortConfig.criteria

\* ------------------------------------------------------------ the server

\* The server at the start: every product id with its name and price, in
\* every kiosk in stock and visible, except the last product, which is out
\* of stock and hidden in kiosk 1.
ServerStarted ==
    /\ db = [id \in ProductIds |->
               [name |-> IF id = 1 THEN "Chleba" ELSE "Cukr",
                price |-> 20,
                stock |-> [kid \in KioskIds |->
                             IF id = NumProductIds /\ kid = 1
                             THEN [quantityInStock |-> 0, active |-> FALSE]
                             ELSE [quantityInStock |-> 3, active |-> TRUE]]]]
    /\ issued = << >>

\* The ids of a database in ascending order.
RECURSIVE IdsAscending(_)
IdsAscending(ids) ==
    IF ids = {} THEN << >>
    ELSE LET least == CHOOSE id \in ids : \A other \in ids : id <= other
         IN << least >> \o IdsAscending(ids \ {least})

\* The list the server returns for a key: the inventory endpoint adds the
\* stock and the visibility in the kiosk of the key.
ListOf(key, database) ==
    LET ids == IdsAscending(DOMAIN database)
    IN [i \in 1..Len(ids) |->
          IF key[1] = "ADMIN_PRODUCTS_INVENTORY"
          THEN [id |-> ids[i],
                name |-> database[ids[i]].name,
                price |-> database[ids[i]].price,
                quantityInStock |-> database[ids[i]].stock[key[2]].quantityInStock,
                active |-> database[ids[i]].stock[key[2]].active]
          ELSE [id |-> ids[i],
                name |-> database[ids[i]].name,
                price |-> database[ids[i]].price]]

\* The responses to a request of a key sent to the server: the body with
\* the server's list, a transport failure or a non-success status.
ListResponses(key, database) ==
    { [rejected |-> FALSE, ok |-> TRUE, json |-> TRUE,
       body |-> [success |-> TRUE,
                 data |-> [products |-> ListOf(key, database)]]],
      [rejected |-> TRUE],
      [rejected |-> FALSE, ok |-> FALSE] }

\* A mutation request sent by the dashboard.
Sent(request) == issued' = Append(issued, request)

\* ------------------------------------------------------- the product form

\* The values typed into the name and price inputs.
FormNames == {"  ", " Cukr "}

FormPrices == {-5, 30}

\* String.prototype.trim()
trim(string) ==
    CASE string = "  " -> ""
      [] string = " Cukr " -> "Cukr"
      [] OTHER -> string

\* The form after construction and after handleCancelEdit.
EmptyForm == [name |-> "", price |-> 0]

NoForm ==
    /\ showAddForm = FALSE
    /\ editingProduct = Undefined
    /\ productForm = EmptyForm
    /\ submitCall = Idle
    /\ submitLog = [result |-> "none", number |-> 0]

\* A validation that tests the name only.
validateProductFormNameOnly(form) == trim(form.name) # ""

\* validateProductForm
validateProductForm(form) ==
    IF trim(form.name) = "" THEN FALSE
    ELSE IF form.price <= 0 THEN FALSE
    ELSE TRUE

\* The add-product-btn of the products section.
openAddForm ==
    /\ showAddForm' = TRUE
    /\ UNCHANGED <<editingProduct, productForm, submitCall, submitLog>>

\* The edit-btn of a product card.
handleEditProduct(product) ==
    /\ editingProduct' = Defined(product)
    /\ productForm' = [name |-> product.name, price |-> product.price]
    /\ showAddForm' = TRUE
    /\ UNCHANGED <<submitCall, submitLog>>

\* modal-close-btn and cancel-btn of the form.
handleCancelEdit ==
    /\ editingProduct' = Undefined
    /\ productForm' = EmptyForm
    /\ showAddForm' = FALSE
    /\ UNCHANGED <<submitCall, submitLog>>

\* onChange of the name and price inputs.
changeName(name) ==
    /\ productForm' = [productForm EXCEPT !.name = name]
    /\ UNCHANGED <<showAddForm, editingProduct, submitCall, submitLog>>

changePrice(price) ==
    /\ productForm' = [productForm EXCEPT !.price = price]
    /\ UNCHANGED <<showAddForm, editingProduct, submitCall, submitLog>>

\* handleProductSubmit up to the await of the request: nothing happens for a
\* form that fails the validation.
handleProductSubmit ==
    IF ~validateProductForm(productForm)
    THEN /\ submitLog' = [result |-> "invalid", number |-> submitLog.number + 1]
         /\ UNCHANGED <<showAddForm, editingProduct, productForm, submitCall,
                        issued>>
    ELSE /\ submitLog' = [result |-> "sent", number |-> submitLog.number + 1]
         /\ submitCall' = [pc |-> "awaitResponse",
                           editingProduct |-> editingProduct,
                           productData |-> [name |-> trim(productForm.name),
                                            price |-> productForm.price]]
         /\ Sent(IF editingProduct # Undefined
                 THEN [method |-> "PUT", productId |-> editingProduct[1].id,
                       body |-> [name |-> trim(productForm.name),
                                 price |-> productForm.price]]
                 ELSE [method |-> "POST",
                       body |-> [name |-> trim(productForm.name),
                                 price |-> productForm.price]])
         /\ UNCHANGED <<showAddForm, editingProduct, productForm>>

\* The server can accept the request of the call: a create, or an update of
\* a product it holds.
Saves(database, call) ==
    IF call.editingProduct = Undefined THEN TRUE
    ELSE call.editingProduct[1].id \in DOMAIN database

\* The id the server gives to a created product.
NextId(database) ==
    IF DOMAIN database = {} THEN 1
    ELSE 1 + CHOOSE id \in DOMAIN database :
               \A other \in DOMAIN database : other <= id

\* The server after the request of the running handleProductSubmit call was
\* accepted: the product is updated, or created out of stock and hidden.
Saved(database, call) ==
    IF call.editingProduct # Undefined
    THEN [database EXCEPT ![call.editingProduct[1].id] =
            [@ EXCEPT !.name = call.productData.name,
                      !.price = call.productData.price]]
    ELSE (NextId(database) :>
            [name |-> call.productData.name,
             price |-> call.productData.price,
             stock |-> [kid \in KioskIds |->
                          [quantityInStock |-> 0, active |-> FALSE]]])
         @@ database

\* responseData.data?.product of an accepted request.
SavedProduct(database, call) ==
    LET id == IF call.editingProduct # Undefined
              THEN call.editingProduct[1].id
              ELSE NextId(database)
    IN [id |-> id, name |-> call.productData.name,
        price |-> call.productData.price]

\* The answers to the request of handleProductSubmit: accepted with the saved
\* product in the body, accepted without it, a non-success status, or a
\* failure of the transport.
SubmitOutcomes == {"ok", "okWithoutProduct", "notOk", "rejected"}

\* handleProductSubmit from the answer of the request to its next await or
\* its end.
handleProductSubmitResponse(outcome) ==
    /\ submitCall.pc = "awaitResponse"
    /\ outcome \in {"ok", "okWithoutProduct"} => Saves(db, submitCall)
    /\ IF outcome \in {"ok", "okWithoutProduct"}
       THEN /\ db' = Saved(db, submitCall)
            /\ \E newProduct \in { SavedProduct(db, submitCall) } :
                 \E changed \in {
                       IF outcome = "okWithoutProduct" THEN HookState
                       ELSE IF submitCall.editingProduct # Undefined
                       THEN mutate(HookState, CurrentKey,
                                   Defined(updateProductUpdater(
                                     cacheData[CurrentKey], newProduct)), FALSE)
                       ELSE mutate(HookState, CurrentKey,
                                   Defined(addProductUpdater(
                                     cacheData[CurrentKey], newProduct)), FALSE) } :
                   RenderHook(mutate(changed, CurrentKey, Undefined, TRUE),
                              kioskId, activeSection)
            /\ editingProduct' = Undefined
            /\ showAddForm' = FALSE
            /\ notification' = Notified("success")
            /\ submitCall' = [pc |-> "awaitRevalidate", key |-> CurrentKey]
       ELSE /\ notification' = Notified("error")
            /\ submitCall' = Idle
            /\ UNCHANGED <<db, editingProduct, showAddForm, sortConfigs,
                           products, rows, cacheData, cacheError, inflight,
                           laggyData>>
    /\ UNCHANGED <<kioskId, activeSection, isConnected, issued, productForm,
                   submitLog>>

\* handleProductSubmit after await revalidate().
handleProductSubmitRevalidated ==
    /\ submitCall.pc = "awaitRevalidate"
    /\ submitCall.key \notin inflight
    /\ submitCall' = Idle
    /\ UNCHANGED <<showAddForm, editingProduct, productForm, submitLog>>

\* ------------------------------------------------------ the inventory rows

\* The values typed into the quantity input of a row.
TypedQuantities == {-2, 5}

\* Math.max(0, parseInt(e.target.value) || 0)
ParsedQuantity(typed) == MathMax(0, typed)

\* product.quantityInStock, undefined when the product has no such field.
QuantityInStockOf(product) ==
    IF "quantityInStock" \in DOMAIN product
    THEN Defined(product.quantityInStock)
    ELSE Undefined

\* An InventoryRow after its first render and effect: the useState values,
\* with the product id and the kiosk of its key and the quantityInStock the
\* effect has seen.
MountedRow(product, kid) ==
    [id |-> product.id, kioskId |-> kid,
     quantity |-> QuantityOf(product),
     originalQuantity |-> QuantityOf(product),
     isEditing |-> FALSE, isLoading |-> FALSE,
     quantityInStock |-> QuantityInStockOf(product)]

\* An InventoryRow rendered again: the effect sets quantity and
\* originalQuantity when product.quantityInStock has changed; another key
\* mounts a new row.
RenderedRow(row, product, kid) ==
    IF row.id # product.id \/ row.kioskId # kid
    THEN MountedRow(product, kid)
    ELSE IF row.quantityInStock = QuantityInStockOf(product)
    THEN row
    ELSE [row EXCEPT !.quantity = QuantityOf(product),
                     !.originalQuantity = QuantityOf(product),
                     !.quantityInStock = QuantityInStockOf(product)]

\* sortProducts(products).map(...) of the inventory section, keyed by
\* product id, kiosk and index.
InventoryRows(states, list, kid, section) ==
    IF section # "inventory" THEN << >>
    ELSE [i \in 1..Len(list) |->
            IF i <= Len(states)
            THEN RenderedRow(states[i], list[i], kid)
            ELSE MountedRow(list[i], kid)]

\* The rows are rendered from the list the Dashboard renders.
RenderRows ==
    rowStates' = InventoryRows(rowStates, rows', kioskId', activeSection')

\* The rows of the first render, no row call running.
RowsMounted ==
    /\ rowStates = InventoryRows(<< >>, rows, kioskId, activeSection)
    /\ rowCall = Idle
    /\ rowLog = [number |-> 0, first |-> 0]

\* The edit button of a row.
startEditing(i) ==
    /\ ~rowStates[i].isEditing
    /\ rowStates' = [rowStates EXCEPT ![i].isEditing = TRUE]
    /\ UNCHANGED <<rowCall, rowLog>>

\* The quantity input of a row.
changeQuantity(i, typed) ==
    /\ rowStates[i].isEditing
    /\ ~rowStates[i].isLoading
    /\ rowStates' = [rowStates EXCEPT ![i].quantity = ParsedQuantity(typed)]
    /\ UNCHANGED <<rowCall, rowLog>>

handleCancel(i) ==
    /\ rowStates[i].isEditing
    /\ ~rowStates[i].isLoading
    /\ rowStates' = [rowStates EXCEPT ![i].isEditing = FALSE,
                                      ![i].quantity =
                                          rowStates[i].originalQuantity]
    /\ UNCHANGED <<rowCall, rowLog>>

\* The visibility-update request of a row.
VisibilityRequest(productId, kid, visible) ==
    [method |-> "PUT", endpoint |-> "ADMIN_PRODUCT_KIOSK_VISIBILITY",
     productId |-> productId, kioskId |-> kid, body |-> [visible |-> visible]]

\* The stock-update request of handleQuickStockUpdate.
InventoryRequest(productId, kid, newQuantity) ==
    [method |-> "PUT", endpoint |-> "ADMIN_PRODUCT_INVENTORY_UPDATE",
     productId |-> productId, kioskId |-> kid,
     body |-> [quantityInStock |-> newQuantity]]

\* The row whose call is running, when it is still mounted: setIsLoading(false)
\* and, at the end of handleSave, setIsEditing(false).
RowCallEnded(states, closeEditor) ==
    [i \in 1..Len(states) |->
       IF states[i].isLoading
       THEN [states[i] EXCEPT !.isLoading = FALSE,
                              !.isEditing = IF closeEditor THEN FALSE ELSE @]
       ELSE states[i]]

\* handleSave of a row up to the await of the request that
\* handleQuickStockUpdate sends.
handleSave(i) ==
    /\ rowStates[i].isEditing
    /\ ~rowStates[i].isLoading
    /\ rowStates' = [rowStates EXCEPT ![i].isLoading = TRUE]
    /\ Sent(InventoryRequest(rows[i].id, kioskId, rowStates[i].quantity))
    /\ rowCall' = [pc |-> "awaitStock", productId |-> rows[i].id,
                   kioskId |-> kioskId, quantity |-> rowStates[i].quantity,
                   products |-> products]
    /\ rowLog' = [rowLog EXCEPT !.number = @ + 1, !.first = Len(issued) + 1]

\* handleSave after setIsEditing(false): onRefresh() revalidates, and the
\* finally block ends the call.
handleSaveEnds ==
    /\ RenderHook(mutate(HookState, CurrentKey, Undefined, TRUE),
                  kioskId, activeSection)
    /\ rowStates' = InventoryRows(RowCallEnded(rowStates, TRUE), rows',
                                  kioskId, activeSection)
    /\ rowCall' = Idle
    /\ UNCHANGED <<kioskId, activeSection, isConnected, rowLog>>

\* handleSave sending the visibility request whatever the quantity is.
handleSaveContinuesAlwaysHiding ==
    /\ Sent(VisibilityRequest(rowCall.productId, rowCall.kioskId, FALSE))
    /\ rowCall' = [rowCall EXCEPT !.pc = "awaitVisibility"]
    /\ UNCHANGED <<kioskId, sortConfigs, products, rows, hookVars,
                   rowStates, rowLog>>

\* handleSave after await onUpdate(...): the visibility request for a
\* quantity of 0, else the end of the call.
handleSaveContinues ==
    IF rowCall.quantity = 0
    THEN /\ Sent(VisibilityRequest(rowCall.productId, rowCall.kioskId, FALSE))
         /\ rowCall' = [rowCall EXCEPT !.pc = "awaitVisibility"]
         /\ UNCHANGED <<kioskId, sortConfigs, products, rows, hookVars,
                        rowStates, rowLog>>
    ELSE handleSaveEnds /\ UNCHANGED issued

\* The answers to a request of a row: accepted, a non-success status, or a
\* failure of the transport.
RowOutcomes == {"ok", "notOk", "rejected"}

\* products.find(p => p.id === productId)
find(list, productId) ==
    IF \E i \in 1..Len(list) : list[i].id = productId
    THEN Defined(list[CHOOSE i \in 1..Len(list) :
                        /\ list[i].id = productId
                        /\ \A j \in 1..(i - 1) : list[j].id # productId])
    ELSE Undefined

\* handleQuickStockUpdate from the answer of its request: an accepted update
\* is merged into the cached list and revalidate() is awaited; otherwise the
\* error is notified, the call resolves and handleSave goes on.
handleQuickStockUpdateResponse(outcome) ==
    /\ rowCall.pc = "awaitStock"
    /\ outcome = "ok" => rowCall.productId \in DOMAIN db
    /\ IF outcome = "ok"
       THEN /\ db' = [db EXCEPT ![rowCall.productId].stock[rowCall.kioskId]
                                    .quantityInStock = rowCall.quantity]
            /\ \E updatedProduct \in { find(rowCall.products,
                                            rowCall.productId) } :
                 \E changed \in {
                       IF updatedProduct = Undefined THEN HookState
                       ELSE mutate(HookState, CurrentKey,
                                   Defined(updateProductUpdater(
                                     cacheData[CurrentKey],
                                     ("quantityInStock" :> rowCall.quantity)
                                        @@ updatedProduct[1])), FALSE) } :
                   RenderHook(mutate(changed, CurrentKey, Undefined, TRUE),
                              kioskId, activeSection)
            /\ rowStates' = InventoryRows(rowStates, rows', kioskId,
                                          activeSection)
            /\ notification' = Notified("success")
            /\ rowCall' = [pc |-> "awaitRevalidate", key |-> CurrentKey,
                           productId |-> rowCall.productId,
                           kioskId |-> rowCall.kioskId,
                           quantity |-> rowCall.quantity]
            /\ UNCHANGED <<kioskId, activeSection, isConnected, issued, rowLog>>
       ELSE /\ notification' = Notified("error")
            /\ handleSaveContinues
            /\ UNCHANGED db

\* handleQuickStockUpdate after await revalidate(): the call resolves and
\* handleSave goes on.
handleQuickStockUpdateRevalidated ==
    /\ rowCall.pc = "awaitRevalidate"
    /\ rowCall.key \notin inflight
    /\ handleSaveContinues
    /\ UNCHANGED <<db, notification>>

\* handleSave from the answer of its visibility request: an accepted request
\* dispatches admin-refresh-requested, whose listener revalidates as
\* onRefresh() does right after.
handleSaveVisibilityResponse(outcome) ==
    /\ rowCall.pc = "awaitVisibility"
    /\ outcome = "ok" => rowCall.productId \in DOMAIN db
    /\ db' = IF outcome = "ok"
             THEN [db EXCEPT ![rowCall.productId].stock[rowCall.kioskId]
                                 .active = FALSE]
             ELSE db
    /\ handleSaveEnds
    /\ UNCHANGED <<issued, notification>>

\* handleToggleVisibility of a row up to the await of its request; the
\* button is disabled while the row loads or shows a quantity of 0.
handleToggleVisibility(i) ==
    /\ ~rowStates[i].isLoading
    /\ rowStates[i].quantity # 0
    /\ rowStates' = [rowStates EXCEPT ![i].isLoading = TRUE]
    /\ Sent(VisibilityRequest(rows[i].id, kioskId, ~ActiveOf(rows[i])))
    /\ rowCall' = [pc |-> "awaitToggle", productId |-> rows[i].id,
                   kioskId |-> kioskId, visible |-> ~ActiveOf(rows[i])]
    /\ rowLog' = [rowLog EXCEPT !.number = @ + 1, !.first = Len(issued) + 1]

\* handleToggleVisibility from the answer of its request: an accepted
\* request revalidates through onRefresh() and the dispatched
\* admin-refresh-requested.
handleToggleVisibilityResponse(outcome) ==
    /\ rowCall.pc = "awaitToggle"
    /\ outcome = "ok" => rowCall.productId \in DOMAIN db
    /\ IF outcome = "ok"
       THEN /\ db' = [db EXCEPT ![rowCall.productId].stock[rowCall.kioskId]
                                    .active = rowCall.visible]
            /\ RenderHook(mutate(HookState, CurrentKey, Undefined, TRUE),
                          kioskId, activeSection)
       ELSE UNCHANGED <<db, sortConfigs, products, rows, cacheData,
                        cacheError, inflight, laggyData>>
    /\ rowStates' = InventoryRows(RowCallEnded(rowStates, FALSE), rows',
                                  kioskId, activeSection)
    /\ rowCall' = Idle
    /\ UNCHANGED <<kioskId, activeSection, isConnected, issued, notification,
                   rowLog>>

\* The dashboard after construction: kiosk 1, no configuration, no products.
Init ==
    /\ kioskId = 1
    /\ sortConfigs = << >>
    /\ products = << >>
    /\ rows = << >>
    /\ lastOp = NoOp
    /\ prevCriteria = << >>
    /\ columnWidths = << >>
    /\ viewOps = 0
    /\ HookMounted
    /\ NoDelete
    /\ LoggedIn
    /\ ServerStarted
    /\ NoForm
    /\ RowsMounted

\* The sort display offers the remove button of a criterion and the reset
\* button only while the selected kiosk has criteria.
RemoveOffered(field) == field \in FieldsOf(getCurrentSortConfig.criteria)

ResetOffered == Len(getCurrentSortConfig.criteria) > 0

Next ==
    \/ \E field \in Fields :
         /\ WithinCriteria(field, MaxTotalCriteria)
         /\ handleSort(field)
         /\ UNCHANGED <<lastOp, prevCriteria>> /\ UNCHANGED restVars
    \/ \E field \in Fields :
         /\ RemoveOffered(field)
         /\ removeSortCriterion(field)
         /\ UNCHANGED <<lastOp, prevCriteria>> /\ UNCHANGED restVars
    \/ ResetOffered /\ resetSort /\ UNCHANGED <<lastOp, prevCriteria>> /\ UNCHANGED restVars
    \/ \E kid \in KioskIds : setKioskId(kid) /\ UNCHANGED <<lastOp, prevCriteria>> /\ UNCHANGED restVars

\* The view state: sort configuration under clicks and kiosk switches.
Spec == Init /\ [][Next]_vars

NextConfig ==
    \/ \E field \in Fields :
         /\ WithinCriteria(field, MaxTotalCriteria)
         /\ handleSort(field)
         /\ Recorded("handleSort", field) /\ UNCHANGED restVars
    \/ \E field \in Fields :
         /\ RemoveOffered(field)
         /\ removeSortCriterion(field)
         /\ Recorded("removeSortCriterion", field) /\ UNCHANGED restVars
    \/ ResetOffered /\ resetSort /\ Recorded("resetSort", "none") /\ UNCHANGED restVars

\* The sort configuration of one kiosk, with the history of the last
\* operation recorded.
SpecConfig == Init /\ [][NextConfig]_vars

\* The dashboard rendering a fetched product list.  The products carry the
\* fields the comparator reads; the rows' edit states are not followed.
InitSort ==
    /\ kioskId = 1
    /\ sortConfigs = << >>
    /\ products \in ProductLists
    /\ rows = sortProducts(<< >>, products).result
    /\ lastOp = NoOp
    /\ prevCriteria = << >>
    /\ columnWidths = << >>
    /\ viewOps = 0
    /\ HookMounted
    /\ NoDelete
    /\ LoggedIn
    /\ ServerStarted
    /\ NoForm
    /\ rowStates = << >>
    /\ rowCall = Idle
    /\ rowLog = [number |-> 0, first |-> 0]

NextSort ==
    \/ \E field \in Fields :
         /\ WithinCriteria(field, MaxSortCriteria)
         /\ handleSort(field)
         /\ UNCHANGED <<lastOp, prevCriteria>> /\ UNCHANGED restVars
    \/ \E field \in Fields :
         /\ RemoveOffered(field)
         /\ removeSortCriterion(field)
         /\ UNCHANGED <<lastOp, prevCriteria>> /\ UNCHANGED restVars
    \/ ResetOffered /\ resetSort /\ UNCHANGED <<lastOp, prevCriteria>> /\ UNCHANGED restVars

\* The sort engine: any product list under the reachable configurations.
SpecSort == InitSort /\ [][NextSort]_vars

\* Widths handed to handleColumnResize: below, within and above the bounds.
RequestedWidths == {30, 170, 600}

\* Pointer movements of a drag of the resize handle.
MouseDeltas == {-50, 50}

NextView ==
    \/ \E field \in Fields :
         /\ viewOps < MaxViewOps
         /\ handleSort(field)
         /\ viewOps' = viewOps + 1
         /\ UNCHANGED <<extVars, lastOp, prevCriteria, columnWidths, hookVars, deleteVars>>
    \/ \E field \in Fields :
         /\ viewOps < MaxViewOps
         /\ RemoveOffered(field)
         /\ removeSortCriterion(field)
         /\ viewOps' = viewOps + 1
         /\ UNCHANGED <<extVars, lastOp, prevCriteria, columnWidths, hookVars, deleteVars>>
    \/ /\ viewOps < MaxViewOps
       /\ ResetOffered
       /\ resetSort
       /\ viewOps' = viewOps + 1
       /\ UNCHANGED <<extVars, lastOp, prevCriteria, columnWidths, hookVars, deleteVars>>
    \/ \E kid \in KioskIds :
         /\ setKioskId(kid)
         /\ UNCHANGED <<extVars, lastOp, prevCriteria, columnWidths, viewOps, hookVars, deleteVars>>
    \/ \E field \in Fields, newWidth \in RequestedWidths :
         /\ viewOps < MaxViewOps
         /\ handleColumnResize(field, newWidth)
         /\ viewOps' = viewOps + 1
         /\ UNCHANGED <<extVars, lastOp, prevCriteria, hookVars, deleteVars>>
    \/ \E field \in Fields, deltaX \in MouseDeltas :
         /\ viewOps < MaxViewOps
         /\ handleMouseMove(field, getCurrentColumnWidths[field], deltaX)
         /\ viewOps' = viewOps + 1
         /\ UNCHANGED <<extVars, lastOp, prevCriteria, hookVars, deleteVars>>

\* The view state: sort configuration and column widths of every kiosk under
\* header clicks, column resizes and kiosk switches.
SpecView == Init /\ [][NextView]_vars

NextWidths ==
    \/ \E kid \in KioskIds :
         /\ setKioskId(kid)
         /\ UNCHANGED <<extVars, lastOp, prevCriteria, columnWidths, viewOps, hookVars, deleteVars>>
    \/ \E field \in Fields, newWidth \in RequestedWidths :
         /\ viewOps < MaxResizes
         /\ handleColumnResize(field, newWidth)
         /\ viewOps' = viewOps + 1
         /\ UNCHANGED <<extVars, lastOp, prevCriteria, hookVars, deleteVars>>
    \/ \E field \in Fields, deltaX \in MouseDeltas :
         /\ viewOps < MaxResizes
         /\ handleMouseMove(field, getCurrentColumnWidths[field], deltaX)
         /\ viewOps' = viewOps + 1
         /\ UNCHANGED <<extVars, lastOp, prevCriteria, hookVars, deleteVars>>

\* The column widths of every kiosk under resizes and kiosk switches.
SpecWidths == Init /\ [][NextWidths]_vars

NextHook ==
    \/ \E response \in Responses :
         /\ FetchCompletes(CurrentKey, response)
         /\ UNCHANGED <<extVars, lastOp, prevCriteria, columnWidths, viewOps, deleteVars>>
    \/ /\ Revalidation
       /\ UNCHANGED <<extVars, lastOp, prevCriteria, columnWidths, viewOps, deleteVars>>
    \/ /\ revalidate
       /\ UNCHANGED <<extVars, lastOp, prevCriteria, columnWidths, viewOps, deleteVars>>
    \/ \E newProduct \in AdminProducts :
         /\ Len(ProductsOf(cacheData[CurrentKey])) < MaxCachedProducts
         /\ addProduct(newProduct)
         /\ UNCHANGED <<extVars, lastOp, prevCriteria, columnWidths, viewOps, deleteVars>>
    \/ \E updatedProduct \in AdminProducts :
         /\ updateProduct(updatedProduct)
         /\ UNCHANGED <<extVars, lastOp, prevCriteria, columnWidths, viewOps, deleteVars>>
    \/ \E productId \in ProductIds :
         /\ removeProduct(productId)
         /\ UNCHANGED <<extVars, lastOp, prevCriteria, columnWidths, viewOps, deleteVars>>

\* The hook of one key under fetches and calls of its optimistic update
\* functions.
SpecHook == Init /\ [][NextHook]_vars

NextKeys ==
    \/ \E kid \in KioskIds :
         /\ selectKiosk(kid)
         /\ UNCHANGED <<extVars, lastOp, prevCriteria, columnWidths, viewOps, deleteVars>>
    \/ \E section \in Sections :
         /\ setActiveSection(section)
         /\ UNCHANGED <<extVars, lastOp, prevCriteria, columnWidths, viewOps, deleteVars>>
    \/ \E key \in Keys :
         \E response \in ServerResponses(key, server) :
           /\ FetchCompletes(key, response)
           /\ UNCHANGED <<extVars, lastOp, prevCriteria, columnWidths, viewOps, deleteVars>>
    \/ /\ Revalidation
       /\ UNCHANGED <<extVars, lastOp, prevCriteria, columnWidths, viewOps, deleteVars>>
    \/ /\ revalidate
       /\ UNCHANGED <<extVars, lastOp, prevCriteria, columnWidths, viewOps, deleteVars>>

\* The hook under kiosk and section switches, with requests of several keys
\* in flight.
SpecKeys == Init /\ [][NextKeys]_vars

NextApp ==
    \/ /\ requests < MaxRequests
       /\ handleLogin
       /\ UNCHANGED <<viewVars, deleteVars, mutationVars>>
    \/ \E response \in LoginResponses :
         /\ handleLoginResponse(response)
         /\ UNCHANGED <<viewVars, deleteVars, mutationVars>>
    \/ /\ handleLogout
       /\ UNCHANGED <<viewVars, deleteVars, mutationVars>>
    \/ \E key \in Keys :
         \E response \in ServerResponses(key, server) :
           /\ FetchSettles(key, response)
           /\ UNCHANGED <<appVars, viewVars, deleteVars, mutationVars>>
    \/ \E key \in Keys :
         /\ DedupingIntervalElapsed(key)
         /\ UNCHANGED <<appVars, viewVars, deleteVars, mutationVars>>
    \/ \E trigger \in DedupedTriggers :
         /\ requests < MaxRequests
         /\ revalidateOn(trigger)
         /\ UNCHANGED <<appVars, viewVars, deleteVars, mutationVars>>
    \/ \E name \in RefreshEvents :
         /\ requests < MaxRequests
         /\ dispatchEvent(name)
         /\ UNCHANGED <<appVars, viewVars, deleteVars, mutationVars>>

NextForm ==
    \/ /\ setActiveSection("products")
       /\ UNCHANGED <<viewVars, deleteVars, extVars>>
    \/ \E response \in ListResponses(CurrentKey, db) :
         /\ FetchCompletes(CurrentKey, response)
         /\ UNCHANGED <<viewVars, deleteVars, extVars>>
    \/ /\ activeSection = "products"
       /\ ~showAddForm
       /\ submitCall = Idle
       /\ openAddForm
       /\ UNCHANGED <<viewVars, dashVars, deleteVars, appVars, fetchVars, rowVars,
                      serverVars>>
    \/ \E i \in 1..Len(rows) :
         /\ activeSection = "products"
         /\ ~showAddForm
         /\ submitCall = Idle
         /\ handleEditProduct(rows[i])
         /\ UNCHANGED <<viewVars, dashVars, deleteVars, appVars, fetchVars, rowVars,
                        serverVars>>
    \/ /\ activeSection = "products"
       /\ showAddForm
       /\ submitCall = Idle
       /\ handleCancelEdit
       /\ UNCHANGED <<viewVars, dashVars, deleteVars, appVars, fetchVars, rowVars,
                      serverVars>>
    \/ \E name \in FormNames :
         /\ activeSection = "products"
         /\ showAddForm
         /\ submitCall = Idle
         /\ changeName(name)
         /\ UNCHANGED <<viewVars, dashVars, deleteVars, appVars, fetchVars, rowVars,
                        serverVars>>
    \/ \E price \in FormPrices :
         /\ activeSection = "products"
         /\ showAddForm
         /\ submitCall = Idle
         /\ changePrice(price)
         /\ UNCHANGED <<viewVars, dashVars, deleteVars, appVars, fetchVars, rowVars,
                        serverVars>>
    \/ /\ activeSection = "products"
       /\ showAddForm
       /\ submitCall = Idle
       /\ submitLog.number < MaxSubmits
       /\ handleProductSubmit
       /\ UNCHANGED <<viewVars, dashVars, deleteVars, appVars, fetchVars,
                      rowVars, db>>
    \/ \E outcome \in SubmitOutcomes :
         /\ handleProductSubmitResponse(outcome)
         /\ UNCHANGED <<viewVars, deleteConfirm, deleteCall, deleteLog,
                        server, appVars, fetchVars, rowVars>>
    \/ /\ handleProductSubmitRevalidated
       /\ UNCHANGED <<viewVars, dashVars, deleteVars, appVars, fetchVars, rowVars,
                      serverVars>>

\* The product form of the products section over the hook and the server.
SpecForm == Init /\ [][NextForm]_vars

NextInventory ==
    \/ \E response \in ListResponses(CurrentKey, db) :
           /\ ~response.rejected
           /\ FetchCompletes(CurrentKey, response)
           /\ RenderRows
           /\ UNCHANGED <<viewVars, deleteVars, appVars, fetchVars, serverVars,
                          formVars, rowCall, rowLog>>
    \/ \E i \in 1..Len(rowStates) :
         /\ startEditing(i)
         /\ UNCHANGED <<viewVars, dashVars, deleteVars, appVars, fetchVars,
                        serverVars, formVars>>
    \/ \E i \in 1..Len(rowStates) :
         \E typed \in TypedQuantities :
           /\ changeQuantity(i, typed)
           /\ UNCHANGED <<viewVars, dashVars, deleteVars, appVars, fetchVars,
                          serverVars, formVars>>
    \/ \E i \in 1..Len(rowStates) :
         /\ handleCancel(i)
         /\ UNCHANGED <<viewVars, dashVars, deleteVars, appVars, fetchVars,
                        serverVars, formVars>>
    \/ \E i \in 1..Len(rowStates) :
         /\ rowCall = Idle
         /\ rowLog.number < MaxRowCalls
         /\ handleSave(i)
         /\ UNCHANGED <<viewVars, dashVars, deleteVars, appVars, fetchVars,
                        db, formVars>>
    \/ \E outcome \in RowOutcomes :
         /\ handleQuickStockUpdateResponse(outcome)
         /\ UNCHANGED <<viewVars, deleteConfirm, deleteCall, deleteLog,
                        server, appVars, fetchVars, formVars>>
    \/ /\ handleQuickStockUpdateRevalidated
       /\ UNCHANGED <<viewVars, deleteConfirm, deleteCall, deleteLog,
                      server, appVars, fetchVars, formVars>>
    \/ \E outcome \in RowOutcomes :
         /\ handleSaveVisibilityResponse(outcome)
         /\ UNCHANGED <<viewVars, deleteConfirm, deleteCall, deleteLog,
                        server, appVars, fetchVars, formVars>>
    \/ \E i \in 1..Len(rowStates) :
         /\ rowCall = Idle
         /\ rowLog.number < MaxRowCalls
         /\ handleToggleVisibility(i)
         /\ UNCHANGED <<viewVars, dashVars, deleteVars, appVars, fetchVars,
                        db, formVars>>
    \/ \E outcome \in RowOutcomes :
         /\ handleToggleVisibilityResponse(outcome)
         /\ UNCHANGED <<viewVars, deleteConfirm, deleteCall, deleteLog,
                        server, appVars, fetchVars, formVars>>

\* The rows of the inventory section over the hook and the server.
SpecInventory == Init /\ [][NextInventory]_vars

\* The server's products without the ones that are not among the ids.
Holding(database, ids) == [id \in DOMAIN database \cap ids |-> database[id]]

\* No handler call that sends a mutation request is running.
NoMutationRunning == deleteCall = Idle /\ submitCall = Idle /\ rowCall = Idle

\* The mutation calls started so far.
Mutations == deleteLog.number + submitLog.number + rowLog.number

\* The request of the current key is answered with the server's list.
FetchSucceeds ==
    \E response \in ListResponses(CurrentKey, db) :
       /\ IF response.rejected THEN FALSE ELSE response.ok
       /\ FetchCompletes(CurrentKey, response)
       /\ RenderRows
       /\ UNCHANGED <<viewVars, deleteVars, appVars, fetchVars, serverVars,
                      formVars, rowCall, rowLog>>

\* A handler awaits the revalidate() it called after a confirmed mutation.
AwaitingRevalidate ==
    \/ deleteCall.pc = "awaitRevalidate"
    \/ submitCall.pc = "awaitRevalidate"
    \/ rowCall.pc = "awaitRevalidate"

\* A handler awaits the revalidate() of the key that is still active.
AwaitingActiveKey ==
    \/ deleteCall.pc = "awaitRevalidate" /\ deleteCall.key = CurrentKey
    \/ submitCall.pc = "awaitRevalidate" /\ submitCall.key = CurrentKey
    \/ rowCall.pc = "awaitRevalidate" /\ rowCall.key = CurrentKey

\* No dialog is open, no row is edited and no request is in flight.
Quiet ==
    /\ ~showAddForm
    /\ ~deleteConfirm.show
    /\ inflight = {}
    /\ \A i \in 1..Len(rowStates) : ~rowStates[i].isEditing

NextReconcile ==
    \/ FetchSucceeds
    \/ \E section \in {"inventory", "products"} :
         /\ \/ AwaitingActiveKey
            \/ NoMutationRunning /\ Quiet /\ Mutations < MaxMutations
         /\ setActiveSection(section)
         /\ RenderRows
         /\ UNCHANGED <<viewVars, deleteVars, appVars, fetchVars, serverVars,
                        formVars, rowCall, rowLog>>
    \/ /\ activeSection = "products"
       /\ ~showAddForm
       /\ NoMutationRunning
       /\ Mutations < MaxMutations
       /\ openAddForm
       /\ UNCHANGED <<viewVars, dashVars, deleteVars, appVars, fetchVars,
                      serverVars, rowVars>>
    \/ \E i \in 1..Len(rows) :
         /\ activeSection = "products"
         /\ ~showAddForm
         /\ NoMutationRunning
         /\ Mutations < MaxMutations
         /\ handleEditProduct(rows[i])
         /\ UNCHANGED <<viewVars, dashVars, deleteVars, appVars, fetchVars,
                        serverVars, rowVars>>
    \/ /\ activeSection = "products"
       /\ showAddForm
       /\ NoMutationRunning
       /\ productForm.name = ""
       /\ changeName(" Cukr ")
       /\ UNCHANGED <<viewVars, dashVars, deleteVars, appVars, fetchVars,
                      serverVars, rowVars>>
    \/ /\ activeSection = "products"
       /\ showAddForm
       /\ NoMutationRunning
       /\ productForm.name # ""
       /\ productForm.price # 30
       /\ changePrice(30)
       /\ UNCHANGED <<viewVars, dashVars, deleteVars, appVars, fetchVars,
                      serverVars, rowVars>>
    \/ /\ activeSection = "products"
       /\ showAddForm
       /\ NoMutationRunning
       /\ submitLog.number < MaxSubmits
       /\ Mutations < MaxMutations
       /\ validateProductForm(productForm)
       /\ handleProductSubmit
       /\ UNCHANGED <<viewVars, dashVars, deleteVars, appVars, fetchVars,
                      rowVars, db>>
    \/ \E outcome \in {"ok"} :
         /\ handleProductSubmitResponse(outcome)
         /\ server' = DOMAIN db'
         /\ RenderRows
         /\ UNCHANGED <<viewVars, deleteConfirm, deleteCall, deleteLog,
                        appVars, fetchVars, rowCall, rowLog>>
    \/ /\ handleProductSubmitRevalidated
       /\ UNCHANGED <<viewVars, dashVars, deleteVars, appVars, fetchVars,
                      serverVars, rowVars>>
    \/ \E i \in 1..Len(rows) :
         /\ activeSection = "products"
         /\ ~deleteConfirm.show
         /\ ~showAddForm
         /\ NoMutationRunning
         /\ deleteLog.number < MaxDeletes
         /\ Mutations < MaxMutations
         /\ handleDeleteProduct(rows[i])
         /\ UNCHANGED <<viewVars, dashVars, extVars>>
    \/ /\ deleteConfirm.show
       /\ NoMutationRunning
       /\ deleteLog.number < MaxDeletes
       /\ Mutations < MaxMutations
       /\ confirmDeleteProduct
       /\ RenderRows
       /\ UNCHANGED <<viewVars, appVars, fetchVars, serverVars, formVars,
                      rowCall, rowLog>>
    \/ \E outcome \in {"ok"} :
         /\ confirmDeleteProductResponse(outcome)
         /\ db' = Holding(db, server')
         /\ RenderRows
         /\ UNCHANGED <<viewVars, appVars, fetchVars, issued, formVars,
                        rowCall, rowLog>>
    \/ /\ confirmDeleteProductRevalidated
       /\ UNCHANGED <<viewVars, extVars>>
    \/ \E i \in 1..Len(rowStates) :
         /\ NoMutationRunning
         /\ Mutations < MaxMutations
         /\ Quiet
         /\ startEditing(i)
         /\ UNCHANGED <<viewVars, dashVars, deleteVars, appVars, fetchVars,
                        serverVars, formVars>>
    \/ \E i \in 1..Len(rowStates) :
         /\ NoMutationRunning
         /\ rowLog.number < MaxRowCalls
         /\ Mutations < MaxMutations
         /\ handleSave(i)
         /\ UNCHANGED <<viewVars, dashVars, deleteVars, appVars, fetchVars,
                        db, formVars>>
    \/ \E outcome \in {"ok"} :
         /\ handleQuickStockUpdateResponse(outcome)
         /\ UNCHANGED <<viewVars, deleteConfirm, deleteCall, deleteLog,
                        server, appVars, fetchVars, formVars>>
    \/ /\ handleQuickStockUpdateRevalidated
       /\ UNCHANGED <<viewVars, deleteConfirm, deleteCall, deleteLog,
                      server, appVars, fetchVars, formVars>>
    \/ \E outcome \in {"ok"} :
         /\ handleSaveVisibilityResponse(outcome)
         /\ UNCHANGED <<viewVars, deleteConfirm, deleteCall, deleteLog,
                        server, appVars, fetchVars, formVars>>

\* The four mutations of the dashboard, one call at a time, over the hook
\* and the server, with the fetches started by revalidate() and by a change
\* of the section.
SpecReconcile == Init /\ [][NextReconcile]_vars

\* SpecReconcile with the fetch succeeding: a request of the current key
\* that stays in flight is eventually answered with the server's list.
SpecReconcileFair == SpecReconcile /\ WF_vars(FetchSucceeds)

\* The App: login, logout and the Dashboard's hook under revalidation
\* triggers and window events.
SpecApp == Init /\ [][NextApp]_vars

\* The history of the running delete notes a fetch result stored under the
\* key of the delete.
FetchLogged(key) ==
    deleteLog' = IF deleteLog.phase = "pending" /\ deleteLog.key = key
                 THEN [deleteLog EXCEPT !.stored = TRUE]
                 ELSE deleteLog

NextDelete ==
    \/ \E section \in Sections :
         /\ setActiveSection(section)
         /\ UNCHANGED <<extVars, lastOp, prevCriteria, columnWidths, viewOps, deleteVars>>
    \/ \E key \in Keys :
         \E response \in ServerResponses(key, server) :
           /\ FetchCompletes(key, response)
           /\ FetchLogged(key)
           /\ UNCHANGED <<extVars, lastOp, prevCriteria, columnWidths, viewOps,
                          deleteConfirm, notification, deleteCall, server>>
    \/ /\ Revalidation
       /\ UNCHANGED <<extVars, lastOp, prevCriteria, columnWidths, viewOps, deleteVars>>
    \/ \E i \in 1..Len(rows) :
         /\ activeSection = "products"
         /\ ~deleteConfirm.show
         /\ deleteCall = Idle
         /\ deleteLog.number < MaxDeletes
         /\ handleDeleteProduct(rows[i])
         /\ UNCHANGED <<extVars, kioskId, sortConfigs, products, rows, lastOp,
                        prevCriteria, columnWidths, viewOps, hookVars>>
    \/ /\ deleteConfirm.show
       /\ cancelDeleteProduct
       /\ UNCHANGED <<extVars, kioskId, sortConfigs, products, rows, lastOp,
                      prevCriteria, columnWidths, viewOps, hookVars>>
    \/ /\ deleteConfirm.show
       /\ deleteCall = Idle
       /\ deleteLog.number < MaxDeletes
       /\ confirmDeleteProduct
       /\ UNCHANGED <<extVars, lastOp, prevCriteria, columnWidths, viewOps>>
    \/ \E outcome \in DeleteOutcomes :
         /\ confirmDeleteProductResponse(outcome)
         /\ UNCHANGED <<extVars, lastOp, prevCriteria, columnWidths, viewOps>>
    \/ \E readable \in BOOLEAN :
         /\ confirmDeleteProductErrorBody(readable)
         /\ UNCHANGED <<extVars, lastOp, prevCriteria, columnWidths, viewOps>>
    \/ /\ confirmDeleteProductRevalidated
       /\ UNCHANGED <<extVars, lastOp, prevCriteria, columnWidths, viewOps>>
    \/ /\ hideNotification
       /\ UNCHANGED <<extVars, kioskId, sortConfigs, products, rows, lastOp,
                      prevCriteria, columnWidths, viewOps, hookVars>>

\* The product management: the delete dialog and the confirmDeleteProduct
\* call over the hook, under section switches and fetches.
SpecDelete == Init /\ [][NextDelete]_vars

\* ------------------------------------------------------------- properties

CurrentCriteria == getCurrentSortConfig.criteria

Range(seq) == { seq[i] : i \in 1..Len(seq) }

Occurrences(seq, x) == Cardinality({ i \in 1..Len(seq) : seq[i] = x })

\* Same elements with the same multiplicities.
IsPermutation(s, t) ==
    /\ Len(s) = Len(t)
    /\ \A x \in Range(s) \cup Range(t) : Occurrences(s, x) = Occurrences(t, x)

\* The three-level visibility priority as the specification states it.
StatedPriority(product) ==
    LET quantity == IF "quantityInStock" \in DOMAIN product
                    THEN product.quantityInStock ELSE 0
        active == IF "active" \in DOMAIN product THEN product.active ELSE FALSE
    IN IF active /\ quantity > 0 THEN 0
       ELSE IF quantity > 0 THEN 1
       ELSE 2

VisibilityAscending ==
    << [field |-> "visibility", direction |-> "asc", priority |-> 0] >>

PriceDescending ==
    << [field |-> "price", direction |-> "desc", priority |-> 0] >>

\* C1: with no criteria the rows are ordered by the three-level visibility
\* priority (0 = active and in stock, 1 = in stock and not active, 2 = out of
\* stock) whatever the names are, and rows of equal priority by name; with
\* the single criterion (visibility, ascending) the rows are ordered by the
\* same priority.
C1_DefaultOrderByVisibilityThenName ==
    /\ CurrentCriteria = << >> =>
         \A i, j \in 1..Len(rows) :
            i < j =>
              \/ StatedPriority(rows[i]) < StatedPriority(rows[j])
              \/ /\ StatedPriority(rows[i]) = StatedPriority(rows[j])
                 /\ CsCollationRank(rows[i].name) <= CsCollationRank(rows[j].name)
    /\ CurrentCriteria = VisibilityAscending =>
         \A i, j \in 1..Len(rows) :
            i < j => StatedPriority(rows[i]) <= StatedPriority(rows[j])

\* Default ordering rendered with an out-of-stock active product delivered
\* first and moved behind a hidden in-stock product whose name sorts later.
C1_Witness ==
    /\ CurrentCriteria = << >>
    /\ Len(products) = 2
    /\ ActiveOf(products[1]) /\ QuantityOf(products[1]) = 0
    /\ rows = << products[2], products[1] >>
    /\ StatedPriority(rows[1]) = 1
    /\ CsCollationRank(rows[1].name) > CsCollationRank(rows[2].name)

\* C2: with two or more criteria the criteria array is in ascending priority
\* order, and for any two adjacent rows the criterion of lowest priority
\* number on which they differ orders them: ascending as the field comparison
\* says, descending the other way round.
C2_LexicographicByPriority ==
    Len(CurrentCriteria) >= 2 =>
      /\ \A i, j \in 1..Len(CurrentCriteria) :
            i < j => CurrentCriteria[i].priority < CurrentCriteria[j].priority
      /\ \A r \in 1..(Len(rows) - 1) :
            LET a == rows[r]
                b == rows[r + 1]
                differing == { c \in Range(CurrentCriteria) :
                                 FieldComparison(c.field, a, b) # 0 }
            IN differing # {} =>
                 LET first == CHOOSE c \in differing :
                                 \A d \in differing : c.priority <= d.priority
                 IN IF first.direction = "asc"
                    THEN FieldComparison(first.field, a, b) < 0
                    ELSE FieldComparison(first.field, a, b) > 0

\* Two criteria, the first descending and tying on the two products, the
\* second deciding and reversing the delivered order.
C2_Witness ==
    /\ Len(CurrentCriteria) = 2
    /\ CurrentCriteria[1].direction = "desc"
    /\ Len(products) = 2
    /\ rows = << products[2], products[1] >>
    /\ rows # products
    /\ FieldComparison(CurrentCriteria[1].field, rows[1], rows[2]) = 0
    /\ FieldComparison(CurrentCriteria[2].field, rows[1], rows[2]) # 0

\* C3: with the single criterion (price, descending) the prices of the rows
\* never increase from one row to the next.
C3_PriceDescendingNonIncreasing ==
    CurrentCriteria = PriceDescending =>
      \A r \in 1..(Len(rows) - 1) : rows[r].price >= rows[r + 1].price

\* (price, descending) rendered for a list delivered with the cheaper
\* product first.
C3_Witness ==
    /\ CurrentCriteria = PriceDescending
    /\ Len(products) = 2
    /\ products[1].price < products[2].price
    /\ rows[1].price > rows[2].price

Swap(seq, i, j) == [seq EXCEPT ![i] = seq[j], ![j] = seq[i]]

\* C4: two products that tie on every configured criterion (with no
\* criteria: on visibility priority and name) come out in an order that does
\* not depend on their positions in the input: exchanging them in the input
\* leaves the rows as they are.
C4_TieOrderIndependentOfInputPosition ==
    \A i, j \in 1..Len(products) :
       (i < j /\ CompareProducts(CurrentCriteria, products[i], products[j]) = 0) =>
          sortProducts(CurrentCriteria, Swap(products, i, j)).result = rows

\* The sign of the comparator on every pair of products.
ComparatorTable ==
    [a \in ProductDomain, b \in ProductDomain |->
        Sign(CompareProducts(CurrentCriteria, a, b))]

\* C5: under every reachable configuration the comparator is a valid
\* comparator on the products: a product ties with itself, exchanging the
\* arguments flips the sign, and both "before" and "ties with" are
\* transitive.
C5_ValidComparator ==
    \A cmp \in { ComparatorTable } :
      \A a, b \in ProductDomain :
         /\ cmp[a, a] = 0
         /\ cmp[a, b] = -cmp[b, a]
         /\ \A c \in ProductDomain :
              /\ (cmp[a, b] < 0 /\ cmp[b, c] < 0) => cmp[a, c] < 0
              /\ (cmp[a, b] = 0 /\ cmp[b, c] = 0) => cmp[a, c] = 0
              /\ (cmp[a, b] < 0 /\ cmp[b, c] = 0) => cmp[a, c] < 0

\* Two criteria, one of them descending, under which two different products
\* tie on every criterion and a third one is ordered behind both.
C5_Witness ==
    /\ Len(CurrentCriteria) = 2
    /\ \E i \in 1..2 : CurrentCriteria[i].direction = "desc"
    /\ \E a, b, c \in ProductDomain :
         /\ a # b
         /\ CompareProducts(CurrentCriteria, a, b) = 0
         /\ CompareProducts(CurrentCriteria, b, c) < 0

\* C6: a render leaves the cached product list as it was, and the rows are
\* the same products with the same multiplicities.
C6_SortLeavesCacheAndPermutes ==
    [][products' = products /\ IsPermutation(rows', products')]_vars

\* Rows rendered under a configured criterion in another order than the
\* cached list has.
C6_Witness ==
    /\ Len(CurrentCriteria) >= 1
    /\ Len(products) = 2
    /\ products[1] # products[2]
    /\ rows = << products[2], products[1] >>

Priorities(criteria) == { criteria[i].priority : i \in 1..Len(criteria) }

\* C7: in every kiosk's configuration the priorities are pairwise distinct
\* and are exactly 0..n-1 for its n criteria, and no field occurs twice.
C7_PrioritiesContiguousFieldsUnique ==
    \A k \in DOMAIN sortConfigs :
       LET criteria == sortConfigs[k].criteria
       IN /\ Priorities(criteria) = 0..(Len(criteria) - 1)
          /\ \A i, j \in 1..Len(criteria) :
                i # j => /\ criteria[i].priority # criteria[j].priority
                         /\ criteria[i].field # criteria[j].field

\* Two kiosks configured, one with two criteria and one with a single
\* descending criterion.
C7_Witness ==
    \E k1, k2 \in DOMAIN sortConfigs :
       /\ k1 # k2
       /\ Len(sortConfigs[k1].criteria) = 2
       /\ Len(sortConfigs[k2].criteria) = 1
       /\ sortConfigs[k2].criteria[1].direction = "desc"

CriterionOf(criteria, field) ==
    CHOOSE c \in Range(criteria) : c.field = field

\* C9: a second handleSort on a field, directly after a handleSort on the
\* same field that was already a criterion, gives back the criteria there
\* were before the first; between the two the field has the other direction
\* and its old priority, and the other criteria are as they were.
C9_ToggleTwiceRestores ==
    [][ ( /\ lastOp.op = "handleSort"
          /\ lastOp.field \in FieldsOf(prevCriteria)
          /\ lastOp' = lastOp )
        => /\ CurrentCriteria' = prevCriteria
           /\ FieldsOf(CurrentCriteria) = FieldsOf(prevCriteria)
           /\ \A c \in Range(prevCriteria) :
                IF c.field = lastOp.field
                THEN /\ CriterionOf(CurrentCriteria, c.field).priority = c.priority
                     /\ CriterionOf(CurrentCriteria, c.field).direction # c.direction
                ELSE c \in Range(CurrentCriteria)
      ]_vars

\* The second criterion toggled from descending back to ascending.
C9_Witness ==
    /\ lastOp.op = "handleSort"
    /\ Len(prevCriteria) >= 2
    /\ prevCriteria[2].field = lastOp.field
    /\ prevCriteria[2].direction = "desc"
    /\ CurrentCriteria[2].direction = "asc"

WithoutPriority(criteria) ==
    [i \in 1..Len(criteria) |->
        [field |-> criteria[i].field, direction |-> criteria[i].direction]]

\* C10: removeSortCriterion on a field among n criteria leaves n-1 criteria
\* with the priorities 0..n-2, the remaining criteria with their fields and
\* directions in the precedence order they had; on a field that is no
\* criterion it leaves the configuration as it is.
C10_RemoveRenumbers ==
    /\ (lastOp.op = "removeSortCriterion" /\ lastOp.field \in FieldsOf(prevCriteria)) =>
         /\ Len(CurrentCriteria) = Len(prevCriteria) - 1
         /\ Priorities(CurrentCriteria) = 0..(Len(prevCriteria) - 2)
         /\ WithoutPriority(SortByPriority(CurrentCriteria)) =
              WithoutPriority(SelectSeq(SortByPriority(prevCriteria),
                                        LAMBDA c : c.field # lastOp.field))
    /\ \A field \in Fields \ FieldsOf(CurrentCriteria) :
         ConfigOf(removeSortCriterionUpdater(sortConfigs, kioskId, field),
                  kioskId) = getCurrentSortConfig

\* The criterion of highest precedence removed from three criteria.
C10_Witness ==
    /\ lastOp.op = "removeSortCriterion"
    /\ Len(prevCriteria) = 3
    /\ prevCriteria[1].field = lastOp.field
    /\ Priorities(CurrentCriteria) = {0, 1}

\* The entry of kiosk k is the same, or missing, in both maps.
EntryUnchanged(before, after, k) ==
    /\ (k \in DOMAIN after) = (k \in DOMAIN before)
    /\ k \in DOMAIN before => after[k] = before[k]

WidthsRequestedFor(field) ==
    RequestedWidths \cup
    { ClampWidth(getCurrentColumnWidths[field] + deltaX) : deltaX \in MouseDeltas }

RightNeighbour(field) ==
    CASE field = "name" -> "price"
      [] field = "price" -> "quantity"
      [] field = "quantity" -> "visibility"

OnClampBound(width) == width = 80 \/ width = 500

\* C12: handleColumnResize on name, price or quantity leaves the columns other
\* than the resized one and its right neighbour unchanged, and when neither
\* resulting width is 80 or 500 the neighbour changes by the opposite amount,
\* so the sum of the two widths is preserved; price 120 -> 170 next to
\* quantity 200 gives price 170 and quantity 150.
C12_NeighbourTakesOppositeDelta ==
    [][ \A field \in {"name", "price", "quantity"} :
          \A newWidth \in WidthsRequestedFor(field) :
            handleColumnResize(field, newWidth) =>
              \E before \in { getCurrentColumnWidths } :
                \E after \in { getCurrentColumnWidths' } :
                  \E next \in { RightNeighbour(field) } :
                    /\ \A other \in Fields \ {field, next} :
                          after[other] = before[other]
                    /\ (~OnClampBound(after[field]) /\ ~OnClampBound(after[next])) =>
                          /\ after[next] - before[next] =
                                 -(after[field] - before[field])
                          /\ after[field] + after[next] =
                                 before[field] + before[next]
                    /\ ( /\ field = "price"
                         /\ before.price = 120
                         /\ before.quantity = 200
                         /\ newWidth = 170 ) =>
                          (after.price = 170 /\ after.quantity = 150)
      ]_vars

\* The selected kiosk after price was resized from 120 to 170.
C12_Witness ==
    /\ kioskId \in DOMAIN columnWidths
    /\ columnWidths[kioskId] =
           [name |-> 300, price |-> 170, quantity |-> 150, visibility |-> 150]

\* C13: handleColumnResize on visibility, the last column, sets its width to
\* the requested width clamped to [80, 500] and leaves name, price and
\* quantity unchanged.
C13_LastColumnClampsInPlace ==
    [][ \A newWidth \in WidthsRequestedFor("visibility") :
          handleColumnResize("visibility", newWidth) =>
            \E before \in { getCurrentColumnWidths } :
              \E after \in { getCurrentColumnWidths' } :
                /\ after.visibility =
                       (IF newWidth < 80 THEN 80
                        ELSE IF newWidth > 500 THEN 500 ELSE newWidth)
                /\ \A other \in {"name", "price", "quantity"} :
                      after[other] = before[other]
      ]_vars

\* The selected kiosk after visibility was resized beyond the upper bound.
C13_Witness ==
    /\ kioskId \in DOMAIN columnWidths
    /\ columnWidths[kioskId] =
           [name |-> 300, price |-> 120, quantity |-> 200, visibility |-> 500]

\* C14: for every kiosk and every column the configured width is within
\* [80, 500].
C14_WidthsWithinBounds ==
    \A k \in KioskIds :
      \A field \in Fields :
        /\ WidthsOf(columnWidths, k)[field] >= 80
        /\ WidthsOf(columnWidths, k)[field] <= 500

\* A kiosk whose name column was requested above the upper bound, which
\* pushed its price column to the lower bound, while another kiosk is
\* selected.
C14_Witness ==
    \E k \in DOMAIN columnWidths :
      /\ k # kioskId
      /\ columnWidths[k].name = 500
      /\ columnWidths[k].price = 80

\* The field-wise merge of an entry and a product: the product's value of
\* every field it has, the entry's value of the others.
StatedMerge(entry, product) ==
    [field \in DOMAIN entry \cup DOMAIN product |->
        IF field \in DOMAIN product THEN product[field] ELSE entry[field]]

\* The three optimistic operations as claimed, from the list old to the list
\* new.
StatedAppend(old, new, product) == new = Append(old, product)

StatedMergeById(old, new, product) ==
    /\ Len(new) = Len(old)
    /\ \A i \in 1..Len(old) :
          new[i] = IF old[i].id = product.id
                   THEN StatedMerge(old[i], product)
                   ELSE old[i]

StatedFilterById(old, new, productId) ==
    new = SelectSeq(old, LAMBDA entry : entry.id # productId)

\* The list of the current key before and after a step; the empty list when
\* nothing is cached.
OldList == ProductsOf(cacheData[CurrentKey])

NewList == ProductsOf(cacheData'[CurrentKey])

\* C15 as claimed: addProduct appends, updateProduct merges by id keeping
\* order and length, removeProduct filters by id, each on the list of the
\* current key and without a request being issued.
C15_OptimisticOperationsAsClaimed ==
    [][ /\ \A product \in AdminProducts :
             addProduct(product) =>
               (StatedAppend(OldList, NewList, product) /\ inflight' \subseteq inflight)
        /\ \A product \in AdminProducts :
             updateProduct(product) =>
               (StatedMergeById(OldList, NewList, product) /\ inflight' \subseteq inflight)
        /\ \A productId \in ProductIds :
             removeProduct(productId) =>
               (StatedFilterById(OldList, NewList, productId) /\ inflight' \subseteq inflight)
      ]_vars

\* C15 amended: when a list is cached for the current key the operations
\* append, merge by id and filter by id as claimed; when nothing is cached
\* addProduct(p) and updateProduct(p) store the one-element list of p and
\* removeProduct stores the empty list.  No request is issued.
C15_OptimisticOperations ==
    [][ /\ \A product \in AdminProducts :
             addProduct(product) =>
               /\ cacheData'[CurrentKey] # Undefined
               /\ StatedAppend(OldList, NewList, product)
               /\ inflight' \subseteq inflight
        /\ \A product \in AdminProducts :
             updateProduct(product) =>
               /\ cacheData'[CurrentKey] # Undefined
               /\ IF cacheData[CurrentKey] = Undefined
                  THEN NewList = << product >>
                  ELSE StatedMergeById(OldList, NewList, product)
               /\ inflight' \subseteq inflight
        /\ \A productId \in ProductIds :
             removeProduct(productId) =>
               /\ cacheData'[CurrentKey] # Undefined
               /\ StatedFilterById(OldList, NewList, productId)
               /\ inflight' \subseteq inflight
      ]_vars

\* A cached list whose first entry is the merge of a product that had a stock
\* quantity with an update that had none, next to an untouched entry.
C15_Witness ==
    /\ cacheData[CurrentKey] # Undefined
    /\ Len(cacheData[CurrentKey][1]) = 2
    /\ cacheData[CurrentKey][1][1] =
           [id |-> 1, name |-> "Chleba", price |-> 20, quantityInStock |-> 3]
    /\ cacheData[CurrentKey][1][2].id = 2

\* C16: when the server answers the DELETE of a product of the cached list
\* with a non-success status, then once revertProduct has run the cached list
\* of the key the product was deleted from contains the product with every
\* field as before the delete, and holds the same set of products as before
\* the delete (no fetch result having been stored under the key meanwhile).
C16_RevertRestoresDeletedProduct ==
    [][ ( /\ deleteLog.phase = "pending"
          /\ deleteLog'.phase = "reverted"
          /\ deleteLog.before # Undefined
          /\ deleteLog.product \in Range(deleteLog.before[1])
          /\ ~deleteLog.stored ) =>
            /\ cacheData'[deleteLog.key] # Undefined
            /\ deleteLog.product \in Range(cacheData'[deleteLog.key][1])
            /\ Range(cacheData'[deleteLog.key][1]) = Range(deleteLog.before[1])
      ]_vars

\* C17: when a confirmDeleteProduct call ends after a failed DELETE request,
\* revertProduct was invoked exactly once and an error notification and no
\* success notification was shown; when it ends after a successful request
\* revertProduct was not invoked; in both cases the dialog is closed.
C17_FailedDeleteRevertsOnce ==
    [][ (deleteCall # Idle /\ deleteCall' = Idle) =>
            /\ deleteConfirm' = DialogClosed
            /\ deleteLog'.phase = "failed" =>
                  /\ deleteLog'.reverts = 1
                  /\ "error" \in deleteLog'.shown
                  /\ "success" \notin deleteLog'.shown
            /\ deleteLog'.phase = "deleted" => deleteLog'.reverts = 0
      ]_vars

\* The response has a success status and a JSON body with success set and a
\* data.products collection.
ExpectedShape(response) ==
    /\ ~response.rejected
    /\ response.ok
    /\ response.json
    /\ "success" \in DOMAIN response.body
    /\ response.body.success
    /\ "data" \in DOMAIN response.body
    /\ "products" \in DOMAIN response.body.data

C19_FailedReadKeepsList ==
    [][ \A key \in inflight \ inflight' :
          \A response \in ServerResponses(key, server) :
            FetchCompletes(key, response) =>
              IF ExpectedShape(response)
              THEN key = CurrentKey =>
                     /\ key \notin cacheError'
                     /\ isConnected'
              ELSE /\ cacheData'[key] = cacheData[key]
                   /\ products' = products
                   /\ rows' = rows
                   /\ key = CurrentKey =>
                         /\ key \in cacheError'
                         /\ ~isConnected'
      ]_vars

\* A read of the key of the hook has failed after an earlier one had
\* succeeded: the list is cached and on screen, and the error is recorded.
C19_Witness ==
    /\ CurrentKey \in cacheError
    /\ ~isConnected
    /\ cacheData[CurrentKey] # Undefined
    /\ products = cacheData[CurrentKey][1]
    /\ Len(products) > 0

\* C20: the result of a fetch issued for a key is stored under that key only:
\* the cached data of every other key stays as it was, every cached list is the
\* list the server returns for its own key, and a response arriving for a key
\* other than the key of the hook leaves the list on screen as it was.
C20_LateResponseStoredUnderOwnKey ==
    [][ \A key \in inflight \ inflight' :
          \A response \in ServerResponses(key, server) :
            FetchCompletes(key, response) =>
              /\ \A other \in Keys \ {key} :
                    cacheData'[other] = cacheData[other]
              /\ \A k \in Keys :
                    cacheData'[k] # Undefined =>
                      cacheData'[k][1] = ServerList(k, server)
              /\ key # CurrentKey =>
                    /\ products' = products
                    /\ rows' = rows
      ]_vars

\* The response of a key arrived after the hook had left the key: its list is
\* cached, while the key of the hook has no data and no list was ever shown.
C20_Witness ==
    /\ \E key \in Keys \ {CurrentKey} : cacheData[key] # Undefined
    /\ cacheData[CurrentKey] = Undefined
    /\ CurrentKey \in inflight
    /\ laggyData = Undefined
    /\ products = << >>

\* A step of one of the explicit revalidations: a window event the hook
\* listens to, or the revalidate() call of the refresh button.
ExplicitRevalidation ==
    \/ \E name \in listeners : dispatchEvent(name)
    \/ listeners # {} /\ forceRefreshProducts

\* A step of one of the revalidations SWR starts by itself.
DedupedRevalidation == \E trigger \in DedupedTriggers : revalidateOn(trigger)

\* The deduplication window of the current key is open: a request of the key
\* is in flight or has completed within dedupingInterval.
WithinDedupingInterval == CurrentKey \in inflight \cup deduping

C22_RefreshEventsRevalidate ==
    [][ \A name \in RefreshEvents :
          dispatchEvent(name) =>
            /\ IF DashboardShown
               THEN /\ CurrentKey \in inflight'
                    /\ requests' = requests + 1
               ELSE UNCHANGED <<hookVars, fetchVars, products, rows>>
            /\ \A other \in RefreshEvents : dispatchEvent(other)
      ]_vars

\* An event has revalidated the key of the mounted hook: the cached data is
\* gone, the list stays on screen and a request is in flight.
C22_Witness ==
    /\ DashboardShown
    /\ cacheData[CurrentKey] = Undefined
    /\ laggyData # Undefined
    /\ CurrentKey \in inflight
    /\ requests >= 2

\* handleLogin got a token: a success status and a body with data.token.
LoginSucceeds(response) ==
    /\ ~response.rejected
    /\ response.ok
    /\ response.json
    /\ "data" \in DOMAIN response.body
    /\ "token" \in DOMAIN response.body.data

PassesValidation(form) == trim(form.name) # "" /\ form.price > 0

\* C25: submitting a form whose name is empty after trimming or whose price
\* is not above 0 sends no request and leaves the cached lists, the list on
\* screen, the server, the form and the editing state as they were; a create
\* or update request is sent only for a form that passes the validation, and
\* carries the trimmed name and the price of the form.
C25_InvalidFormSendsNothing ==
    [][ /\ (handleProductSubmit /\ ~PassesValidation(productForm)) =>
              UNCHANGED <<issued, db, cacheData, inflight, products, rows,
                          productForm, editingProduct, showAddForm, submitCall,
                          notification>>
        /\ issued' # issued =>
              /\ PassesValidation(productForm)
              /\ issued' = Append(issued, issued'[Len(issued')])
              /\ issued'[Len(issued')].body =
                    [name |-> trim(productForm.name), price |-> productForm.price]
      ]_vars

\* A form with a blank name and a positive price was submitted: nothing was
\* sent and the form is still open.
C25_Witness ==
    /\ submitLog.result = "invalid"
    /\ productForm = [name |-> "  ", price |-> 30]
    /\ showAddForm
    /\ submitCall = Idle
    /\ issued = << >>

\* The positions of a running handleSave call.
SavePositions == {"awaitStock", "awaitRevalidate", "awaitVisibility"}

\* The requests the row call that ends in this step has sent.
SentByCall == SubSeq(issued', rowLog.first, Len(issued'))

\* C24: a handleSave call of a row sends the stock update first; for a
\* quantity of 0 it sends exactly one more request, the visibility update
\* with visible:false for the same product and kiosk, and for a quantity
\* above 0 it sends nothing else.
C24_ZeroQuantityHidesOnce ==
    [][ /\ (rowCall.pc = "idle" /\ rowCall'.pc = "awaitStock") =>
              \E i \in 1..Len(rows) :
                 /\ rowStates[i].isEditing
                 /\ issued' = Append(issued,
                                     InventoryRequest(rows[i].id, kioskId,
                                                      rowStates[i].quantity))
        /\ (rowCall.pc \in SavePositions /\ rowCall'.pc = "idle") =>
              /\ SentByCall[1].endpoint = "ADMIN_PRODUCT_INVENTORY_UPDATE"
              /\ IF SentByCall[1].body.quantityInStock = 0
                 THEN SentByCall =
                        << SentByCall[1],
                           VisibilityRequest(SentByCall[1].productId,
                                             SentByCall[1].kioskId, FALSE) >>
                 ELSE SentByCall = << SentByCall[1] >>
      ]_vars

\* A save of quantity 0 has ended after its stock update and one
\* visibility update with visible:false.
C24_Witness ==
    /\ rowCall = Idle
    /\ Len(issued) = 2
    /\ issued[1] = InventoryRequest(1, 1, 0)
    /\ issued[2] = VisibilityRequest(1, 1, FALSE)
    /\ db[1].stock[1] = [quantityInStock |-> 0, active |-> FALSE]

\* C29: when the stock update of a handleSave call is not accepted, the call
\* sends no visibility update.
C29_NoHideAfterFailedUpdate ==
    [][ (rowCall.pc = "awaitStock" /\ rowCall'.pc # "awaitRevalidate") =>
           issued' = issued ]_vars

\* The quantityInStock of a product in the list the hook returns.
CachedQuantity(productId) ==
    IF find(products, productId) = Undefined THEN 0
    ELSE QuantityOf(find(products, productId)[1])

\* C30: no visibility update with visible:true is sent for a product whose
\* cached quantityInStock is 0.
C30_NoShowAtZeroStock ==
    [][ (/\ Len(issued') = Len(issued) + 1
         /\ issued'[Len(issued')].endpoint = "ADMIN_PRODUCT_KIOSK_VISIBILITY"
         /\ issued'[Len(issued')].body.visible) =>
           CachedQuantity(issued'[Len(issued')].productId) # 0 ]_vars

\* The list has at most one entry per product id.
OneEntryPerId(list) ==
    \A i, j \in 1..Len(list) : list[i].id = list[j].id => i = j

\* C27: the cached product list of every key holds at most one entry per
\* product id.
C27_OneEntryPerId ==
    \A key \in Keys :
       cacheData[key] # Undefined => OneEntryPerId(cacheData[key][1])

\* C28: the revert of a rejected delete changes the cached list of the key
\* the delete was started under and of no other key.
C28_RevertAppliedToKeyOfDelete ==
    [][ (deleteLog.phase = "pending" /\ deleteLog'.phase \in {"reverted", "failed"}) =>
           \A key \in Keys \ {deleteLog.key} : cacheData'[key] = cacheData[key]
      ]_vars

\* A handler has received the server's confirmation of its mutation.
MutationConfirmed ==
    \/ deleteCall.pc = "awaitResponse" /\ deleteCall'.pc = "awaitRevalidate"
    \/ submitCall.pc = "awaitResponse" /\ submitCall'.pc = "awaitRevalidate"
    \/ rowCall.pc = "awaitStock" /\ rowCall'.pc = "awaitRevalidate"

\* The cached list of the active key is the server's list.
Reconciled == cacheData[CurrentKey] = Defined(ListOf(CurrentKey, db))

====
